---------------------------- MODULE Spec2Model ----------------------------
(***************************************************************************)
(* The FIRRTL structural type system of lib/Dialect/FIRRTL/FIRRTLTypes.cpp *)
(* and include/circt/Dialect/FIRRTL/FIRRTLTypes.h.                         *)
(*                                                                         *)
(* A type handle is a record.  Types are uniqued by the type store, so two *)
(* handles are the same handle exactly when their records are equal.       *)
(*   ground     [kind, isConst]           Clock, Reset, AsyncReset         *)
(*              [kind, width, isConst]    SInt, UInt, Analog (-1 = unknown)*)
(*   Bundle     [kind, elements, isConst] elements: <<[name,isFlip,type]>> *)
(*   OpenBundle as Bundle                                                  *)
(*   FVector    [kind, elementType, numElements, isConst]; OpenVector same *)
(*   FEnum      [kind, elements, isConst] elements: <<[name,type]>>        *)
(*   Ref        [kind, type, forceable]                                    *)
(*   String, BigInt [kind]; List [kind, elementType]; Map [kind,key,value] *)
(*   Alias      [kind, name, innerType]   the per-kind alias types built   *)
(*                                        by wrapTypeAlias                 *)
(*   Null       [kind]                    the empty handle                 *)
(* Element indices are 0-based, as in the source.                          *)
(***************************************************************************)
EXTENDS Integers, Sequences, FiniteSets, TLC

VARIABLES dest, src, flags, fieldID, index, op, result, pair, iters

vars == <<dest, src, flags, fieldID, index, op, result, pair, iters>>

-----------------------------------------------------------------------------
(* Bounds of the checked universe.                                         *)

MaxWidth == 2
MaxVecLen == 3
MaxNodes == 4
MaxSelfNodes == 3

-----------------------------------------------------------------------------
(* Type constructors (the `get` factories).                                *)

NullType == [kind |-> "Null"]

ClockType(c) == [kind |-> "Clock", isConst |-> c]
ResetType(c) == [kind |-> "Reset", isConst |-> c]
AsyncResetType(c) == [kind |-> "AsyncReset", isConst |-> c]
SIntType(w, c) == [kind |-> "SInt", width |-> w, isConst |-> c]
UIntType(w, c) == [kind |-> "UInt", width |-> w, isConst |-> c]
AnalogType(w, c) == [kind |-> "Analog", width |-> w, isConst |-> c]

BundleElement(n, f, t) == [name |-> n, isFlip |-> f, type |-> t]
EnumElement(n, t) == [name |-> n, type |-> t]

BundleType(elts, c) == [kind |-> "Bundle", elements |-> elts, isConst |-> c]
OpenBundleType(elts, c) ==
    [kind |-> "OpenBundle", elements |-> elts, isConst |-> c]
FVectorType(e, n, c) ==
    [kind |-> "FVector", elementType |-> e, numElements |-> n, isConst |-> c]
OpenVectorType(e, n, c) ==
    [kind |-> "OpenVector", elementType |-> e, numElements |-> n,
     isConst |-> c]
FEnumType(elts, c) == [kind |-> "FEnum", elements |-> elts, isConst |-> c]
RefType(t, f) == [kind |-> "Ref", type |-> t, forceable |-> f]
StringType == [kind |-> "String"]
BigIntType == [kind |-> "BigInt"]

GroundKinds == {"Clock", "Reset", "AsyncReset", "SInt", "UInt", "Analog"}
WidthKinds == {"SInt", "UInt", "Analog"}
PropertyKinds == {"String", "BigInt", "List", "Map"}
BaseKinds == GroundKinds \cup {"Bundle", "FVector", "FEnum"}

(* wrapTypeAlias: an alias is never wrapped in a second alias and a        *)
(* String or BigInt is returned unchanged.                                 *)
wrapTypeAlias(n, t) ==
    IF t.kind \in (BaseKinds \cup {"Ref", "OpenBundle", "OpenVector",
                                   "Map", "List"})
    THEN [kind |-> "Alias", name |-> n, innerType |-> t]
    ELSE t

-----------------------------------------------------------------------------
(* Alias-aware casts.                                                      *)

RECURSIVE type_cast_any(_)
(* The type reached by following getInnerType() through alias wrappers.    *)
type_cast_any(t) ==
    IF t.kind = "Alias" THEN type_cast_any(t.innerType) ELSE t

(* type_isa<K...>(t) for concrete kinds K.                                 *)
type_isa(Ks, t) == type_cast_any(t).kind \in Ks

(* type_dyn_cast<K>(t) for a concrete kind K: the unwrapped type or the    *)
(* null handle.                                                            *)
type_dyn_cast(K, t) == IF type_isa({K}, t) THEN type_cast_any(t) ELSE NullType

(* FIRRTLBaseType::classof: any type of the dialect that is not, behind    *)
(* aliases, a property, reference or open aggregate.                       *)
FIRRTLBaseType_classof(t) ==
    /\ t.kind # "Null"
    /\ ~type_isa(PropertyKinds \cup {"Ref", "OpenBundle", "OpenVector"}, t)

(* type_dyn_cast<FIRRTLBaseType>(t): an alias of a base type is itself a   *)
(* FIRRTLBaseType, so the handle is returned with its alias.               *)
type_dyn_cast_Base(t) == IF FIRRTLBaseType_classof(t) THEN t ELSE NullType

IsNull(t) == t.kind = "Null"

-----------------------------------------------------------------------------
(* Storage-level const flag.  An alias storage is built from the key of    *)
(* the wrapped type's storage, so it carries the wrapped type's flag.      *)

RECURSIVE storage_isConst(_)
storage_isConst(t) ==
    IF t.kind = "Alias" THEN storage_isConst(t.innerType)
    ELSE IF t.kind \in BaseKinds \cup {"OpenBundle", "OpenVector"}
         THEN t.isConst
         ELSE FALSE

(* FIRRTLType::isConst                                                     *)
isConst(t) ==
    IF type_isa(BaseKinds \cup {"OpenBundle", "OpenVector"}, t)
    THEN storage_isConst(t)
    ELSE FALSE

-----------------------------------------------------------------------------
(* Recursive type properties.                                              *)

RecursiveTypeProperties(p, r, a, c, al, w, rs) ==
    [isPassive |-> p, containsReference |-> r, containsAnalog |-> a,
     containsConst |-> c, containsTypeAlias |-> al, hasUninferredWidth |-> w,
     hasUninferredReset |-> rs]

hasWidth(t) == 0 <= t.width

RECURSIVE getRecursiveTypeProperties(_)
RECURSIVE BundleStorage_props(_, _, _)
RECURSIVE FEnumStorage_props(_, _, _)

(* The constructor loop of BundleTypeStorage and OpenBundleTypeStorage:    *)
(* props after the elements i..Len(elts), starting from acc.               *)
BundleStorage_props(elts, i, acc) ==
    IF i > Len(elts) THEN acc
    ELSE LET eltInfo == getRecursiveTypeProperties(elts[i].type)
         IN BundleStorage_props(elts, i + 1,
              [isPassive |-> acc.isPassive /\ eltInfo.isPassive
                                /\ ~elts[i].isFlip,
               containsAnalog |-> acc.containsAnalog \/ eltInfo.containsAnalog,
               containsReference |->
                   acc.containsReference \/ eltInfo.containsReference,
               containsConst |-> acc.containsConst \/ eltInfo.containsConst,
               containsTypeAlias |->
                   acc.containsTypeAlias \/ eltInfo.containsTypeAlias,
               hasUninferredWidth |->
                   acc.hasUninferredWidth \/ eltInfo.hasUninferredWidth,
               hasUninferredReset |->
                   acc.hasUninferredReset \/ eltInfo.hasUninferredReset])

(* The constructor loop of FEnumTypeStorage.                               *)
FEnumStorage_props(elts, i, acc) ==
    IF i > Len(elts) THEN acc
    ELSE LET eltInfo == getRecursiveTypeProperties(elts[i].type)
         IN FEnumStorage_props(elts, i + 1,
              [acc EXCEPT
                 !.isPassive = acc.isPassive /\ eltInfo.isPassive,
                 !.containsAnalog =
                     acc.containsAnalog \/ eltInfo.containsAnalog,
                 !.containsConst = acc.containsConst \/ eltInfo.containsConst,
                 !.hasUninferredWidth =
                     acc.hasUninferredWidth \/ eltInfo.hasUninferredWidth,
                 !.containsTypeAlias =
                     acc.containsTypeAlias \/ eltInfo.containsTypeAlias])

(* FVectorTypeStorage and OpenVectorTypeStorage.                           *)
VectorStorage_props(elementProps, c) ==
    [elementProps EXCEPT !.containsConst = elementProps.containsConst \/ c]

(* FIRRTLType::getRecursiveTypeProperties, with the storages it reads.     *)
getRecursiveTypeProperties(t) ==
    CASE t.kind \in {"Clock", "Reset", "AsyncReset"} ->
           RecursiveTypeProperties(TRUE, FALSE, FALSE, t.isConst, FALSE,
                                   FALSE, t.kind = "Reset")
      [] t.kind \in {"SInt", "UInt"} ->
           RecursiveTypeProperties(TRUE, FALSE, FALSE, t.isConst, FALSE,
                                   ~hasWidth(t), FALSE)
      [] t.kind = "Analog" ->
           RecursiveTypeProperties(TRUE, FALSE, TRUE, t.isConst, FALSE,
                                   ~hasWidth(t), FALSE)
      [] t.kind \in {"Bundle", "OpenBundle"} ->
           BundleStorage_props(t.elements, 1,
               RecursiveTypeProperties(TRUE, FALSE, FALSE, t.isConst, FALSE,
                                       FALSE, FALSE))
      [] t.kind \in {"FVector", "OpenVector"} ->
           VectorStorage_props(getRecursiveTypeProperties(t.elementType),
                               t.isConst)
      [] t.kind = "FEnum" ->
           FEnumStorage_props(t.elements, 1,
               RecursiveTypeProperties(TRUE, FALSE, FALSE, t.isConst, FALSE,
                                       FALSE, FALSE))
      [] t.kind = "Ref" ->
           [getRecursiveTypeProperties(t.type) EXCEPT
              !.containsReference = TRUE, !.isPassive = FALSE]
      [] t.kind \in {"String", "BigInt"} ->
           RecursiveTypeProperties(TRUE, FALSE, FALSE, FALSE, FALSE, FALSE,
                                   FALSE)
      [] t.kind = "Alias" ->
           [getRecursiveTypeProperties(t.innerType) EXCEPT
              !.containsTypeAlias = TRUE]

isPassive(t) == getRecursiveTypeProperties(t).isPassive
containsConst(t) == getRecursiveTypeProperties(t).containsConst
containsAnalog(t) == getRecursiveTypeProperties(t).containsAnalog
containsReference(t) == getRecursiveTypeProperties(t).containsReference
containsTypeAlias(t) == getRecursiveTypeProperties(t).containsTypeAlias

-----------------------------------------------------------------------------
(* Transformers used by the decision procedures.  FIRRTLTypeSwitch hands   *)
(* each case the type behind the alias (type_dyn_cast), so a case that     *)
(* calls a method of its argument works on the unwrapped type, while a     *)
(* case that returns *this returns the handle the method was called on.    *)

RECURSIVE getWidthlessType(_)
(* FIRRTLBaseType::getWidthlessType                                        *)
getWidthlessType(t) ==
    LET a == type_cast_any(t) IN
    CASE a.kind \in {"Clock", "Reset", "AsyncReset"} -> a
      [] a.kind \in WidthKinds -> [a EXCEPT !.width = -1]
      [] a.kind = "Bundle" ->
           BundleType([i \in 1..Len(a.elements) |->
                         BundleElement(a.elements[i].name,
                                       a.elements[i].isFlip,
                                       getWidthlessType(a.elements[i].type))],
                      a.isConst)
      [] a.kind = "FVector" ->
           FVectorType(getWidthlessType(a.elementType), a.numElements,
                       a.isConst)
      [] a.kind = "FEnum" ->
           FEnumType([i \in 1..Len(a.elements) |->
                        EnumElement(a.elements[i].name,
                                    getWidthlessType(a.elements[i].type))],
                     a.isConst)

(* FEnumType::verify without the const check.                              *)
FEnum_verify_Mutant(elts, c) ==
    \A i \in 1..Len(elts) :
        LET r == getRecursiveTypeProperties(elts[i].type)
        IN r.isPassive /\ ~r.containsAnalog

(* FEnumType::verify                                                       *)
FEnum_verify(elts, c) ==
    \A i \in 1..Len(elts) :
        LET r == getRecursiveTypeProperties(elts[i].type)
        IN r.isPassive /\ ~r.containsAnalog /\ ~(r.containsConst /\ ~c)

(* What a `get` whose verify fails leaves behind: Base::get asserts that   *)
(* verification succeeded, so no type is returned.                         *)
InvalidType == [kind |-> "Invalid"]
IsInvalid(t) == t.kind = "Invalid"

(* FIRRTLBaseType::getConstType with the getConstType of each kind: the    *)
(* unwrapped type with its own const flag set to c.  FEnumType has no      *)
(* early return and always goes through get, which verifies.               *)
getConstType(t, c) ==
    LET a == type_cast_any(t) IN
    IF a.kind = "FEnum" /\ ~FEnum_verify(a.elements, c)
    THEN InvalidType
    ELSE [a EXCEPT !.isConst = c]

(* getPassiveType that clears the flips of the outermost bundle only.      *)
getPassiveType_Mutant(t) ==
    LET a == type_cast_any(t) IN
    CASE a.kind \in GroundKinds \cup {"FEnum"} -> t
      [] a.kind = "Bundle" ->
           BundleType([i \in 1..Len(a.elements) |->
                         BundleElement(a.elements[i].name, FALSE,
                                       a.elements[i].type)],
                      a.isConst)
      [] a.kind = "FVector" -> a

RECURSIVE getPassiveType(_)
(* FIRRTLBaseType::getPassiveType with BundleType::getPassiveType and      *)
(* FVectorType::getPassiveType (the value they compute and cache).         *)
getPassiveType(t) ==
    LET a == type_cast_any(t) IN
    CASE a.kind \in GroundKinds \cup {"FEnum"} -> t
      [] a.kind = "Bundle" ->
           IF isPassive(a) THEN a
           ELSE BundleType([i \in 1..Len(a.elements) |->
                              BundleElement(a.elements[i].name, FALSE,
                                  getPassiveType(a.elements[i].type))],
                           a.isConst)
      [] a.kind = "FVector" ->
           IF isPassive(a.elementType) THEN a
           ELSE FVectorType(getPassiveType(a.elementType), a.numElements,
                            a.isConst)

(* Some type of the sequence ts could not be built.                        *)
AnyInvalid(ts) == \E i \in 1..Len(ts) : IsInvalid(ts[i])

RECURSIVE getAnonymousType(_)
(* FIRRTLBaseType::getAnonymousType with BundleType::getAnonymousType,     *)
(* FVectorType::getAnonymousType and FEnumType::getAnonymousType (the      *)
(* value they compute and cache).  The ground case returns the handle the  *)
(* method was called on; the enum is rebuilt with get(context, elements),  *)
(* that is with isConst = false.                                           *)
getAnonymousType(t) ==
    LET a == type_cast_any(t) IN
    CASE a.kind \in GroundKinds -> t
      [] a.kind = "Bundle" ->
           IF ~containsTypeAlias(a) THEN a
           ELSE LET ts == [i \in 1..Len(a.elements) |->
                             getAnonymousType(a.elements[i].type)]
                IN IF AnyInvalid(ts) THEN InvalidType
                   ELSE BundleType([i \in 1..Len(a.elements) |->
                                      BundleElement(a.elements[i].name,
                                          a.elements[i].isFlip, ts[i])],
                                   a.isConst)
      [] a.kind = "FVector" ->
           IF ~containsTypeAlias(a) THEN a
           ELSE LET e == getAnonymousType(a.elementType)
                IN IF IsInvalid(e) THEN InvalidType
                   ELSE FVectorType(e, a.numElements, a.isConst)
      [] a.kind = "FEnum" ->
           IF ~containsTypeAlias(a) THEN a
           ELSE LET ts == [i \in 1..Len(a.elements) |->
                             getAnonymousType(a.elements[i].type)]
                    elements == [i \in 1..Len(a.elements) |->
                                   EnumElement(a.elements[i].name, ts[i])]
                IN IF AnyInvalid(ts) THEN InvalidType
                   ELSE IF ~FEnum_verify(elements, FALSE) THEN InvalidType
                   ELSE FEnumType(elements, FALSE)

RECURSIVE getAllConstDroppedType(_)
(* FIRRTLBaseType::getAllConstDroppedType with the getAllConstDroppedType  *)
(* of BundleType, FVectorType and FEnumType.                               *)
getAllConstDroppedType(t) ==
    LET a == type_cast_any(t) IN
    CASE a.kind \in GroundKinds -> [a EXCEPT !.isConst = FALSE]
      [] a.kind = "Bundle" ->
           IF ~containsConst(a) THEN a
           ELSE LET ts == [i \in 1..Len(a.elements) |->
                             getAllConstDroppedType(a.elements[i].type)]
                IN IF AnyInvalid(ts) THEN InvalidType
                   ELSE BundleType([i \in 1..Len(a.elements) |->
                                      BundleElement(a.elements[i].name,
                                          a.elements[i].isFlip, ts[i])],
                                   FALSE)
      [] a.kind = "FVector" ->
           IF ~containsConst(a) THEN a
           ELSE LET e == getAllConstDroppedType(a.elementType)
                IN IF IsInvalid(e) THEN InvalidType
                   ELSE FVectorType(e, a.numElements, FALSE)
      [] a.kind = "FEnum" ->
           IF ~containsConst(a) THEN a
           ELSE LET ts == [i \in 1..Len(a.elements) |->
                             getAllConstDroppedType(a.elements[i].type)]
                    elements == [i \in 1..Len(a.elements) |->
                                   EnumElement(a.elements[i].name, ts[i])]
                IN IF AnyInvalid(ts) THEN InvalidType
                   ELSE IF ~FEnum_verify(elements, FALSE) THEN InvalidType
                   ELSE FEnumType(elements, FALSE)

RECURSIVE getMaskType(_)
(* FIRRTLBaseType::getMaskType.  There is no FEnumType case: an enum runs  *)
(* into llvm_unreachable and no type is returned.                          *)
getMaskType(t) ==
    LET a == type_cast_any(t) IN
    CASE a.kind \in GroundKinds -> UIntType(1, isConst(t))
      [] a.kind = "Bundle" ->
           LET ts == [i \in 1..Len(a.elements) |->
                        getMaskType(a.elements[i].type)]
           IN IF AnyInvalid(ts) THEN InvalidType
              ELSE BundleType([i \in 1..Len(a.elements) |->
                                 BundleElement(a.elements[i].name, FALSE,
                                               ts[i])],
                              a.isConst)
      [] a.kind = "FVector" ->
           LET e == getMaskType(a.elementType)
           IN IF IsInvalid(e) THEN InvalidType
              ELSE FVectorType(e, a.numElements, a.isConst)
      [] OTHER -> InvalidType

(* FIRRTLBaseType::getBitWidthOrSentinel                                   *)
getBitWidthOrSentinel(t) ==
    LET a == type_cast_any(t) IN
    CASE a.kind \in {"Clock", "Reset", "AsyncReset"} -> 1
      [] a.kind \in WidthKinds -> a.width
      [] a.kind \in {"Bundle", "FVector", "FEnum"} -> -2

(* The alias case of isResetType: it returns the wrapped type converted    *)
(* to bool, which is true for every non-null handle.                       *)
isResetType_alias(t) == ~IsNull(t.innerType)

(* Mutation of isResetType: AsyncReset is not a reset type.                *)
isResetType_Mutant(t) ==
    CASE t.kind = "Reset" -> TRUE
      [] t.kind = "UInt" -> ~hasWidth(t) \/ t.width = 1
      [] t.kind = "Alias" -> isResetType_alias(t)
      [] OTHER -> FALSE

(* FIRRTLBaseType::isResetType.  A plain TypeSwitch: an alias only matches *)
(* the TypeAliasInterface case.                                            *)
isResetType(t) ==
    CASE t.kind \in {"Reset", "AsyncReset"} -> TRUE
      [] t.kind = "UInt" -> ~hasWidth(t) \/ t.width = 1
      [] t.kind = "Alias" -> isResetType_alias(t)
      [] OTHER -> FALSE

-----------------------------------------------------------------------------
(* Field-ID addressing.  A call that ends in an assertion failure or in    *)
(* llvm_unreachable yields a result with fatal = TRUE.                     *)

BundleLikeKinds == {"Bundle", "OpenBundle", "FEnum"}
VectorLikeKinds == {"FVector", "OpenVector"}

RECURSIVE getMaxFieldID(_)
RECURSIVE Storage_fieldIDs(_, _, _, _)

(* The field-ID loop of the BundleTypeStorage, OpenBundleTypeStorage and   *)
(* FEnumTypeStorage constructors: the fieldIDs table and maxFieldID.       *)
Storage_fieldIDs(elts, i, fid, acc) ==
    IF i > Len(elts) THEN [fieldIDs |-> acc, maxFieldID |-> fid]
    ELSE Storage_fieldIDs(elts, i + 1,
                          (fid + 1) + getMaxFieldID(elts[i].type),
                          Append(acc, fid + 1))

Storage(t) == Storage_fieldIDs(t.elements, 1, 0, <<>>)

(* Mutation of Vector_getMaxFieldID: the element's own ID is not counted.  *)
Vector_getMaxFieldID_Mutant(a) ==
    a.numElements * getMaxFieldID(a.elementType)

(* FVectorType::getMaxFieldID and OpenVectorType::getMaxFieldID            *)
Vector_getMaxFieldID(a) ==
    a.numElements * (getMaxFieldID(a.elementType) + 1)

(* getMaxFieldID of every kind that implements the field-ID interface.     *)
getMaxFieldID(t) ==
    LET a == type_cast_any(t) IN
    CASE a.kind \in GroundKinds -> 0
      [] a.kind \in BundleLikeKinds -> Storage(a).maxFieldID
      [] a.kind \in VectorLikeKinds -> Vector_getMaxFieldID(a)
      [] a.kind = "Ref" -> 0

getNumElements(a) ==
    IF a.kind \in BundleLikeKinds THEN Len(a.elements) ELSE a.numElements

(* getElementType(index) of a bundle-like type.                            *)
getElementType(a, i) == a.elements[i + 1].type

(* FVectorType::getFieldID and OpenVectorType::getFieldID                  *)
Vector_getFieldID(a, i) == 1 + i * (getMaxFieldID(a.elementType) + 1)

(* BundleType::getFieldID, OpenBundleType::getFieldID, FEnumType::getFieldID *)
Bundle_getFieldID(a, i) == Storage(a).fieldIDs[i + 1]

getFieldID(t, i) ==
    LET a == type_cast_any(t) IN
    IF a.kind \in BundleLikeKinds THEN Bundle_getFieldID(a, i)
    ELSE Vector_getFieldID(a, i)

(* Mutation of UpperBoundPrev: lower_bound in place of upper_bound, the    *)
(* index of the last entry that is < fieldID.                              *)
UpperBoundPrev_Mutant(fieldIDs, fid) ==
    LET lt == {i \in 1..Len(fieldIDs) : fieldIDs[i] < fid}
    IN IF lt = {} THEN 0 ELSE (CHOOSE i \in lt : \A j \in lt : j <= i) - 1

(* std::prev(llvm::upper_bound(fieldIDs, fieldID)): the index of the last  *)
(* entry that is <= fieldID.                                               *)
UpperBoundPrev(fieldIDs, fid) ==
    LET le == {i \in 1..Len(fieldIDs) : fieldIDs[i] <= fid}
    IN (CHOOSE i \in le : \A j \in le : j <= i) - 1

(* getIndexForFieldID of Bundle, OpenBundle and FEnum.  The assertion      *)
(* rejects an empty element list; a field ID below the first entry makes   *)
(* std::prev step before begin().                                          *)
Bundle_getIndexForFieldID(a, fid) ==
    IF Len(a.elements) = 0 \/ fid < 1
    THEN [fatal |-> TRUE, value |-> 0]
    ELSE [fatal |-> FALSE, value |-> UpperBoundPrev(Storage(a).fieldIDs, fid)]

(* getIndexForFieldID of FVector and OpenVector.                           *)
Vector_getIndexForFieldID(a, fid) ==
    IF fid = 0
    THEN [fatal |-> TRUE, value |-> 0]
    ELSE [fatal |-> FALSE,
          value |-> (fid - 1) \div (getMaxFieldID(a.elementType) + 1)]

SubType(t, i) == [fatal |-> FALSE, type |-> t, id |-> i]
FatalSubType == [fatal |-> TRUE, type |-> NullType, id |-> 0]

(* The ground case of FIRRTLBaseType::getSubTypeByFieldID.                 *)
Ground_getSubTypeByFieldID(a, fid) ==
    IF fid # 0 THEN FatalSubType ELSE SubType(a, 0)

(* BundleType::, OpenBundleType:: and FEnumType::getSubTypeByFieldID       *)
Bundle_getSubTypeByFieldID(a, fid) ==
    IF fid = 0 THEN SubType(a, 0)
    ELSE LET subfieldIndex == Bundle_getIndexForFieldID(a, fid)
         IN IF subfieldIndex.fatal THEN FatalSubType
            ELSE SubType(getElementType(a, subfieldIndex.value),
                         fid - Bundle_getFieldID(a, subfieldIndex.value))

(* Mutation of FVector_getSubTypeByFieldID: the element index is returned  *)
(* in place of the rebased ID.                                             *)
FVector_getSubTypeByFieldID_Mutant(a, fid) ==
    IF fid = 0 THEN SubType(a, 0)
    ELSE SubType(a.elementType, Vector_getIndexForFieldID(a, fid).value)

(* FVectorType::getSubTypeByFieldID                                        *)
FVector_getSubTypeByFieldID(a, fid) ==
    IF fid = 0 THEN SubType(a, 0)
    ELSE SubType(a.elementType,
                 fid - Vector_getFieldID(a,
                           Vector_getIndexForFieldID(a, fid).value))

(* OpenVectorType::getSubTypeByFieldID: the second component is the        *)
(* element index.                                                          *)
OpenVector_getSubTypeByFieldID(a, fid) ==
    IF fid = 0 THEN SubType(a, 0)
    ELSE SubType(a.elementType, Vector_getIndexForFieldID(a, fid).value)

(* RefType::getSubTypeByFieldID                                            *)
Ref_getSubTypeByFieldID(a, fid) ==
    IF fid # 0 THEN FatalSubType ELSE SubType(a, 0)

(* getSubTypeByFieldID of any type with the field-ID interface; an alias   *)
(* forwards to the type it wraps.                                          *)
getSubTypeByFieldID(t, fid) ==
    LET a == type_cast_any(t) IN
    CASE a.kind \in GroundKinds -> Ground_getSubTypeByFieldID(a, fid)
      [] a.kind \in BundleLikeKinds -> Bundle_getSubTypeByFieldID(a, fid)
      [] a.kind = "FVector" -> FVector_getSubTypeByFieldID(a, fid)
      [] a.kind = "OpenVector" -> OpenVector_getSubTypeByFieldID(a, fid)
      [] a.kind = "Ref" -> Ref_getSubTypeByFieldID(a, fid)

ChildRange(id, inRange) == [id |-> id, inRange |-> inRange]

(* Mutation of Bundle_rootChildFieldID: the range of an element runs up to *)
(* the next element's ID inclusive.                                        *)
Bundle_rootChildFieldID_Mutant(a, fid, i) ==
    LET childRoot == Bundle_getFieldID(a, i)
        rangeEnd == IF i + 1 >= Len(a.elements)
                    THEN Storage(a).maxFieldID
                    ELSE Bundle_getFieldID(a, i + 1)
    IN ChildRange(fid - childRoot, fid >= childRoot /\ fid <= rangeEnd)

(* rootChildFieldID of Bundle, OpenBundle and FEnum.  The returned id is   *)
(* the unsigned 64-bit difference; a negative number -k here stands for    *)
(* the wrapped value 2^64 - k.                                             *)
Bundle_rootChildFieldID(a, fid, i) ==
    LET childRoot == Bundle_getFieldID(a, i)
        rangeEnd == IF i + 1 >= Len(a.elements)
                    THEN Storage(a).maxFieldID
                    ELSE Bundle_getFieldID(a, i + 1) - 1
    IN ChildRange(fid - childRoot, fid >= childRoot /\ fid <= rangeEnd)

(* rootChildFieldID of FVector and OpenVector.                             *)
Vector_rootChildFieldID(a, fid, i) ==
    LET childRoot == Vector_getFieldID(a, i)
        rangeEnd == IF i >= a.numElements
                    THEN Vector_getMaxFieldID(a)
                    ELSE Vector_getFieldID(a, i + 1) - 1
    IN ChildRange(fid - childRoot, fid >= childRoot /\ fid <= rangeEnd)

(* FIRRTLBaseType::rootChildFieldID and RefType::rootChildFieldID          *)
rootChildFieldID(t, fid, i) ==
    LET a == type_cast_any(t) IN
    CASE a.kind \in GroundKinds \cup {"Ref"} -> ChildRange(0, fid = 0)
      [] a.kind \in BundleLikeKinds -> Bundle_rootChildFieldID(a, fid, i)
      [] a.kind \in VectorLikeKinds -> Vector_rootChildFieldID(a, fid, i)

-----------------------------------------------------------------------------
(* The decision procedures.  Each returns "true" or "false", or "fatal"    *)
(* when the call runs into an assertion failure.                           *)

Bool3(b) == IF b THEN "true" ELSE "false"

RECURSIVE areTypesEquivalent(_, _, _, _, _)
RECURSIVE areBundlesEquivalentFrom(_, _, _, _, _, _)
RECURSIVE areEnumsEquivalentFrom(_, _, _, _, _)

(* Mutation of areBundleElementsEquivalent: a flipped element is compared  *)
(* without swapping the roles.                                             *)
areBundleElementsEquivalent_Mutant(destElement, srcElement, destOuterTypeIsConst, srcOuterTypeIsConst, requiresSameWidth) ==
    IF destElement.name # srcElement.name THEN "false"
    ELSE IF destElement.isFlip # srcElement.isFlip THEN "false"
    ELSE areTypesEquivalent(destElement.type, srcElement.type,
                            destOuterTypeIsConst, srcOuterTypeIsConst,
                            requiresSameWidth)

(* areBundleElementsEquivalent                                             *)
areBundleElementsEquivalent(destElement, srcElement, destOuterTypeIsConst, srcOuterTypeIsConst, requiresSameWidth) ==
    IF destElement.name # srcElement.name THEN "false"
    ELSE IF destElement.isFlip # srcElement.isFlip THEN "false"
    ELSE IF destElement.isFlip
         THEN areTypesEquivalent(srcElement.type, destElement.type,
                                 srcOuterTypeIsConst, destOuterTypeIsConst,
                                 requiresSameWidth)
         ELSE areTypesEquivalent(destElement.type, srcElement.type,
                                 destOuterTypeIsConst, srcOuterTypeIsConst,
                                 requiresSameWidth)

(* The element loop of the bundle case, from element i on.                 *)
areBundlesEquivalentFrom(destElements, srcElements, i, destIsConst, srcIsConst, requireSameWidths) ==
    IF i > Len(destElements) THEN "true"
    ELSE LET r == areBundleElementsEquivalent(destElements[i], srcElements[i],
                      destIsConst, srcIsConst, requireSameWidths)
         IN IF r # "true" THEN r
            ELSE areBundlesEquivalentFrom(destElements, srcElements, i + 1,
                     destIsConst, srcIsConst, requireSameWidths)

(* The element loop of the enum case, from element i on: the variants are  *)
(* compared with requireSameWidths = true.                                 *)
areEnumsEquivalentFrom(destElements, srcElements, i, destIsConst, srcIsConst) ==
    IF i > Len(destElements) THEN "true"
    ELSE IF destElements[i].name # srcElements[i].name THEN "false"
    ELSE LET r == areTypesEquivalent(destElements[i].type,
                      srcElements[i].type, destIsConst, srcIsConst, TRUE)
         IN IF r # "true" THEN r
            ELSE areEnumsEquivalentFrom(destElements, srcElements, i + 1,
                                        destIsConst, srcIsConst)

(* "Ground type connections must be const compatible."                     *)
isConstCompatible(destIsConst, srcIsConst) == ~(destIsConst /\ ~srcIsConst)

(* Mutation of areConstlessTypesEqual: only the destination is stripped of *)
(* const.                                                                  *)
areConstlessTypesEqual_Mutant(destType, srcType) ==
    LET d == getConstType(destType, FALSE)
    IN IF IsInvalid(d) THEN "fatal" ELSE Bool3(d = type_cast_any(srcType))

(* The comparison of the const-stripped types that ends the ground case.   *)
areConstlessTypesEqual(destType, srcType) ==
    LET d == getConstType(destType, FALSE)
        s == getConstType(srcType, FALSE)
    IN IF IsInvalid(d) \/ IsInvalid(s) THEN "fatal" ELSE Bool3(d = s)

(* Mutation of areGroundTypesEquivalent: the widths are always dropped,    *)
(* whatever requireSameWidths says.                                        *)
areGroundTypesEquivalent_Mutant(destType, srcType, destIsConst, srcIsConst, requireSameWidths) ==
    IF ~isConstCompatible(destIsConst, srcIsConst) THEN "false"
    ELSE IF type_isa({"Reset"}, destType) THEN Bool3(isResetType(srcType))
    ELSE IF type_isa({"Reset"}, srcType) THEN Bool3(isResetType(destType))
    ELSE areConstlessTypesEqual(getWidthlessType(destType),
                                getWidthlessType(srcType))

(* The ground case of areTypesEquivalent; it is also where pairs of        *)
(* different kinds end up.                                                 *)
areGroundTypesEquivalent(destType, srcType, destIsConst, srcIsConst, requireSameWidths) ==
    IF ~isConstCompatible(destIsConst, srcIsConst) THEN "false"
    ELSE IF type_isa({"Reset"}, destType) THEN Bool3(isResetType(srcType))
    ELSE IF type_isa({"Reset"}, srcType) THEN Bool3(isResetType(destType))
    ELSE LET srcType1 ==
                 IF ~requireSameWidths \/ getBitWidthOrSentinel(destType) = -1
                 THEN getWidthlessType(srcType) ELSE srcType
             destType1 ==
                 IF ~requireSameWidths \/ getBitWidthOrSentinel(srcType1) = -1
                 THEN getWidthlessType(destType) ELSE destType
         IN areConstlessTypesEqual(destType1, srcType1)

(* firrtl::areTypesEquivalent                                              *)
areTypesEquivalent(destFType, srcFType, destOuterTypeIsConst, srcOuterTypeIsConst, requireSameWidths) ==
    LET destType == type_dyn_cast_Base(destFType)
        srcType == type_dyn_cast_Base(srcFType)
        srcIsConst == srcOuterTypeIsConst \/ isConst(srcFType)
        destIsConst == destOuterTypeIsConst \/ isConst(destFType)
        destVectorType == type_dyn_cast("FVector", destType)
        srcVectorType == type_dyn_cast("FVector", srcType)
        destBundleType == type_dyn_cast("Bundle", destType)
        srcBundleType == type_dyn_cast("Bundle", srcType)
        dstEnumType == type_dyn_cast("FEnum", destType)
        srcEnumType == type_dyn_cast("FEnum", srcType)
    IN
    IF IsNull(destType) \/ IsNull(srcType) THEN Bool3(destFType = srcFType)
    ELSE IF ~IsNull(destVectorType) /\ ~IsNull(srcVectorType)
    THEN IF destVectorType.numElements # srcVectorType.numElements
         THEN "false"
         ELSE areTypesEquivalent(destVectorType.elementType,
                                 srcVectorType.elementType, destIsConst,
                                 srcIsConst, requireSameWidths)
    ELSE IF ~IsNull(destBundleType) /\ ~IsNull(srcBundleType)
    THEN IF Len(destBundleType.elements) # Len(srcBundleType.elements)
         THEN "false"
         ELSE areBundlesEquivalentFrom(destBundleType.elements,
                  srcBundleType.elements, 1, destIsConst, srcIsConst,
                  requireSameWidths)
    ELSE IF ~IsNull(dstEnumType) /\ ~IsNull(srcEnumType)
    THEN IF Len(dstEnumType.elements) # Len(srcEnumType.elements)
         THEN "false"
         ELSE areEnumsEquivalentFrom(dstEnumType.elements,
                  srcEnumType.elements, 1, destIsConst, srcIsConst)
    ELSE areGroundTypesEquivalent(destType, srcType, destIsConst, srcIsConst,
                                  requireSameWidths)

RECURSIVE areTypesWeaklyEquivalent(_, _, _, _, _, _)
RECURSIVE areBundlesWeaklyEquivalentFrom(_, _, _, _, _, _, _)

(* BundleType::getElement(StringRef): the first element of that name, or   *)
(* the null element.                                                       *)
NullElement == [name |-> "", isFlip |-> FALSE, type |-> NullType]
getElementByName(a, name) ==
    LET hits == {i \in 1..Len(a.elements) : a.elements[i].name = name}
    IN IF hits = {} THEN NullElement
       ELSE a.elements[CHOOSE i \in hits : \A j \in hits : i <= j]

(* The leaf checks of weak equivalence on flippedness and constness.       *)
isWeaklyLeafCompatible(destFlip, srcFlip, destIsConst, srcIsConst) ==
    /\ destFlip = srcFlip
    /\ ~(destFlip /\ srcIsConst /\ ~destIsConst)
    /\ ~(srcFlip /\ destIsConst /\ ~srcIsConst)

(* The ground case of areTypesWeaklyEquivalent.                            *)
areGroundTypesWeaklyEquivalent(destType, srcType, destFlip, srcFlip, destIsConst, srcIsConst) ==
    IF ~isWeaklyLeafCompatible(destFlip, srcFlip, destIsConst, srcIsConst)
    THEN "false"
    ELSE IF type_isa({"Reset"}, destType) THEN Bool3(isResetType(srcType))
    ELSE IF type_isa({"Reset"}, srcType) THEN Bool3(isResetType(destType))
    ELSE areConstlessTypesEqual(getWidthlessType(destType),
                                getWidthlessType(srcType))

(* Mutation of areBundlesWeaklyEquivalentFrom: a destination element that  *)
(* the source lacks rejects.                                               *)
areBundlesWeaklyEquivalentFrom_Mutant(destElements, srcBundleType, i, destFlip, srcFlip, destOuterTypeIsConst, srcOuterTypeIsConst) ==
    IF i > Len(destElements) THEN "true"
    ELSE LET destElt == destElements[i]
             srcElt == getElementByName(srcBundleType, destElt.name)
             r == IF IsNull(srcElt.type) THEN "false"
                  ELSE areTypesWeaklyEquivalent(destElt.type, srcElt.type,
                           destFlip # destElt.isFlip, srcFlip # srcElt.isFlip,
                           destOuterTypeIsConst, srcOuterTypeIsConst)
         IN IF r # "true" THEN r
            ELSE areBundlesWeaklyEquivalentFrom(destElements, srcBundleType,
                     i + 1, destFlip, srcFlip, destOuterTypeIsConst,
                     srcOuterTypeIsConst)

(* The all_of over the destination's elements, from element i on.  The     *)
(* recursive call is given the outer const flags of this call.             *)
areBundlesWeaklyEquivalentFrom(destElements, srcBundleType, i, destFlip, srcFlip, destOuterTypeIsConst, srcOuterTypeIsConst) ==
    IF i > Len(destElements) THEN "true"
    ELSE LET destElt == destElements[i]
             srcElt == getElementByName(srcBundleType, destElt.name)
             r == IF IsNull(srcElt.type) THEN "true"
                  ELSE areTypesWeaklyEquivalent(destElt.type, srcElt.type,
                           destFlip # destElt.isFlip, srcFlip # srcElt.isFlip,
                           destOuterTypeIsConst, srcOuterTypeIsConst)
         IN IF r # "true" THEN r
            ELSE areBundlesWeaklyEquivalentFrom(destElements, srcBundleType,
                     i + 1, destFlip, srcFlip, destOuterTypeIsConst,
                     srcOuterTypeIsConst)

(* firrtl::areTypesWeaklyEquivalent                                        *)
areTypesWeaklyEquivalent(destFType, srcFType, destFlip, srcFlip, destOuterTypeIsConst, srcOuterTypeIsConst) ==
    LET destType == type_dyn_cast_Base(destFType)
        srcType == type_dyn_cast_Base(srcFType)
        srcIsConst == srcOuterTypeIsConst \/ isConst(srcFType)
        destIsConst == destOuterTypeIsConst \/ isConst(destFType)
        destVectorType == type_dyn_cast("FVector", destType)
        srcVectorType == type_dyn_cast("FVector", srcType)
        destBundleType == type_dyn_cast("Bundle", destType)
        srcBundleType == type_dyn_cast("Bundle", srcType)
    IN
    IF IsNull(destType) \/ IsNull(srcType) THEN Bool3(destFType = srcFType)
    ELSE IF ~IsNull(destVectorType) /\ ~IsNull(srcVectorType)
    THEN areTypesWeaklyEquivalent(destVectorType.elementType,
             srcVectorType.elementType, destFlip, srcFlip, destIsConst,
             srcIsConst)
    ELSE IF ~IsNull(destBundleType) /\ ~IsNull(srcBundleType)
    THEN areBundlesWeaklyEquivalentFrom(destBundleType.elements,
             srcBundleType, 1, destFlip, srcFlip, destOuterTypeIsConst,
             srcOuterTypeIsConst)
    ELSE areGroundTypesWeaklyEquivalent(destType, srcType, destFlip, srcFlip,
                                        destIsConst, srcIsConst)

RECURSIVE areTypesConstCastable(_, _, _)
RECURSIVE areElementsConstCastableFrom(_, _, _, _)

(* Mutation of areElementsConstCastableFrom: the element names are not     *)
(* compared.                                                               *)
areElementsConstCastableFrom_Mutant(destElements, srcElements, i, srcIsConst) ==
    IF i > Len(destElements) THEN "true"
    ELSE LET r == areTypesConstCastable(destElements[i].type,
                                        srcElements[i].type, srcIsConst)
         IN IF r # "true" THEN r
            ELSE areElementsConstCastableFrom(destElements, srcElements,
                                              i + 1, srcIsConst)

(* The all_of_zip of the bundle case, from element i on.                   *)
areElementsConstCastableFrom(destElements, srcElements, i, srcIsConst) ==
    IF i > Len(destElements) THEN "true"
    ELSE IF destElements[i].name # srcElements[i].name THEN "false"
    ELSE LET r == areTypesConstCastable(destElements[i].type,
                                        srcElements[i].type, srcIsConst)
         IN IF r # "true" THEN r
            ELSE areElementsConstCastableFrom(destElements, srcElements,
                                              i + 1, srcIsConst)

(* "Ground types can be casted if the source type is a const version of    *)
(* the destination type": destType == srcType.getConstType(dest.isConst()) *)
areGroundTypesConstCastable(destType, srcType) ==
    LET s == getConstType(srcType, storage_isConst(destType))
    IN IF IsInvalid(s) THEN "fatal" ELSE Bool3(destType = s)

(* firrtl::areTypesConstCastable                                           *)
areTypesConstCastable(destFType, srcFType, srcOuterTypeIsConst) ==
    LET destType == type_dyn_cast_Base(destFType)
        srcType == type_dyn_cast_Base(srcFType)
        srcIsConst == storage_isConst(srcType) \/ srcOuterTypeIsConst
        destVectorType == type_dyn_cast("FVector", destType)
        srcVectorType == type_dyn_cast("FVector", srcType)
        destBundleType == type_dyn_cast("Bundle", destType)
        srcBundleType == type_dyn_cast("Bundle", srcType)
    IN
    IF destFType = srcFType THEN "true"
    ELSE IF IsNull(destType) \/ IsNull(srcType) THEN "false"
    ELSE IF ~isPassive(destType) \/ ~isPassive(srcType) THEN "false"
    ELSE IF storage_isConst(destType) /\ ~srcIsConst THEN "false"
    ELSE IF ~IsNull(destVectorType) /\ ~IsNull(srcVectorType)
    THEN IF destVectorType.numElements # srcVectorType.numElements
         THEN "false"
         ELSE areTypesConstCastable(destVectorType.elementType,
                                    srcVectorType.elementType, srcIsConst)
    ELSE IF destVectorType # srcVectorType THEN "false"
    ELSE IF ~IsNull(destBundleType) /\ ~IsNull(srcBundleType)
    THEN IF Len(destBundleType.elements) # Len(srcBundleType.elements)
         THEN "false"
         ELSE areElementsConstCastableFrom(destBundleType.elements,
                  srcBundleType.elements, 1, srcIsConst)
    ELSE IF destBundleType # srcBundleType THEN "false"
    ELSE areGroundTypesConstCastable(destType, srcType)

RECURSIVE areTypesRefCastable_recurse(_, _, _)
RECURSIVE areElementsRefCastableFrom(_, _, _, _)

(* The all_of_zip of the bundle and enum cases, from element i on.         *)
areElementsRefCastableFrom(destElements, srcElements, i, srcIsConst) ==
    IF i > Len(destElements) THEN "true"
    ELSE IF destElements[i].name # srcElements[i].name THEN "false"
    ELSE LET r == areTypesRefCastable_recurse(destElements[i].type,
                                              srcElements[i].type, srcIsConst)
         IN IF r # "true" THEN r
            ELSE areElementsRefCastableFrom(destElements, srcElements, i + 1,
                                            srcIsConst)

(* The leaf case of the walk: const and width are taken from dest.         *)
areLeavesRefCastable(dst, s) ==
    IF type_isa({"Reset"}, dst) THEN Bool3(isResetType(s))
    ELSE LET s1 == getConstType(s, storage_isConst(dst))
         IN IF IsInvalid(s1) THEN "fatal"
            ELSE LET s2 == IF getBitWidthOrSentinel(dst) = -1
                           THEN getWidthlessType(s1) ELSE s1
                 IN Bool3(dst = s2)

(* The lambda `recurse` of areTypesRefCastable.                            *)
areTypesRefCastable_recurse(dst, s, srcOuterTypeIsConst) ==
    LET srcIsConst == storage_isConst(s) \/ srcOuterTypeIsConst
        destVectorType == type_dyn_cast("FVector", dst)
        destBundleType == type_dyn_cast("Bundle", dst)
        destEnumType == type_dyn_cast("FEnum", dst)
        srcVectorType == type_dyn_cast("FVector", s)
        srcBundleType == type_dyn_cast("Bundle", s)
        srcEnumType == type_dyn_cast("FEnum", s)
    IN
    IF dst = s THEN "true"
    ELSE IF ~(isPassive(dst) /\ isPassive(s)) THEN "fatal"
    ELSE IF storage_isConst(dst) /\ ~srcIsConst THEN "false"
    ELSE IF ~IsNull(destVectorType)
    THEN IF IsNull(srcVectorType) THEN "false"
         ELSE IF destVectorType.numElements # srcVectorType.numElements
         THEN "false"
         ELSE areTypesRefCastable_recurse(destVectorType.elementType,
                  srcVectorType.elementType, srcIsConst)
    ELSE IF ~IsNull(destBundleType)
    THEN IF IsNull(srcBundleType) THEN "false"
         ELSE IF Len(destBundleType.elements) # Len(srcBundleType.elements)
         THEN "false"
         ELSE areElementsRefCastableFrom(destBundleType.elements,
                  srcBundleType.elements, 1, srcIsConst)
    ELSE IF ~IsNull(destEnumType)
    THEN IF IsNull(srcEnumType) THEN "false"
         ELSE IF Len(destEnumType.elements) # Len(srcEnumType.elements)
         THEN "false"
         ELSE areElementsRefCastableFrom(destEnumType.elements,
                  srcEnumType.elements, 1, srcIsConst)
    ELSE areLeavesRefCastable(dst, s)

(* firrtl::areTypesRefCastable                                             *)
areTypesRefCastable(dstType, srcType) ==
    LET dstRefType == type_dyn_cast("Ref", dstType)
        srcRefType == type_dyn_cast("Ref", srcType)
    IN
    IF IsNull(dstRefType) \/ IsNull(srcRefType) THEN "false"
    ELSE IF dstRefType = srcRefType THEN "true"
    ELSE IF dstRefType.forceable /\ ~srcRefType.forceable THEN "false"
    ELSE areTypesRefCastable_recurse(dstRefType.type, srcRefType.type, FALSE)

RECURSIVE isTypeLarger(_, _)
RECURSIVE isBundleLargerFrom(_, _, _)

(* Mutation of isBundleLargerFrom: a flipped element is compared without   *)
(* swapping the arguments.                                                 *)
isBundleLargerFrom_Mutant(dstBundle, srcBundle, i) ==
    IF i >= Len(dstBundle.elements) THEN "true"
    ELSE IF i >= Len(srcBundle.elements) THEN "fatal"
    ELSE LET srcElem == srcBundle.elements[i + 1]
             dstElem == dstBundle.elements[i + 1]
             r == isTypeLarger(dstElem.type, srcElem.type)
         IN IF r # "true" THEN r
            ELSE isBundleLargerFrom(dstBundle, srcBundle, i + 1)

(* The element loop of the bundle case, from index i (0-based) on;         *)
(* getElement(i) asserts i < getNumElements().                             *)
isBundleLargerFrom(dstBundle, srcBundle, i) ==
    IF i >= Len(dstBundle.elements) THEN "true"
    ELSE IF i >= Len(srcBundle.elements) THEN "fatal"
    ELSE LET srcElem == srcBundle.elements[i + 1]
             dstElem == dstBundle.elements[i + 1]
             r == IF dstElem.isFlip
                  THEN isTypeLarger(srcElem.type, dstElem.type)
                  ELSE isTypeLarger(dstElem.type, srcElem.type)
         IN IF r # "true" THEN r
            ELSE isBundleLargerFrom(dstBundle, srcBundle, i + 1)

(* The default case: the comparison of the two widths.                     *)
isGroundLarger(dstType, srcType) ==
    LET destWidth == getBitWidthOrSentinel(getPassiveType(dstType))
        srcWidth == getBitWidthOrSentinel(getPassiveType(srcType))
    IN Bool3(destWidth <= -1 \/ srcWidth <= -1 \/ destWidth >= srcWidth)

(* firrtl::isTypeLarger.  A plain TypeSwitch on dstType: an alias of a     *)
(* bundle or vector takes the default case.  type_cast of srcType asserts  *)
(* that it is, behind aliases, of the requested kind.                      *)
isTypeLarger(dstType, srcType) ==
    CASE dstType.kind = "Bundle" ->
           IF ~type_isa({"Bundle"}, srcType) THEN "fatal"
           ELSE isBundleLargerFrom(dstType, type_cast_any(srcType), 0)
      [] dstType.kind = "FVector" ->
           IF ~type_isa({"FVector"}, srcType) THEN "fatal"
           ELSE isTypeLarger(dstType.elementType,
                             type_cast_any(srcType).elementType)
      [] OTHER -> isGroundLarger(dstType, srcType)

-----------------------------------------------------------------------------
(* getFinalTypeByFieldID of FIRRTLBaseType, OpenBundleType and             *)
(* OpenVectorType is a loop over getSubTypeByFieldID; it is taken one      *)
(* iteration per step by the actions below.  RefType::getFinalTypeByFieldID*)
(* asserts fieldID == 0 and returns the reference.                         *)

Ref_getFinalTypeByFieldID(a, fid) ==
    IF fid # 0 THEN FatalSubType ELSE SubType(a, 0)

-----------------------------------------------------------------------------
(* Well-formedness: what the verify hooks and the C++ element types        *)
(* accept.  Only such types are ever handed to an operation.               *)

FieldNames == <<"a", "b", "c", "d", "e", "f", "g", "h">>

RefType_verify(base, forceable) ==
    isPassive(base) /\ ~(forceable /\ containsConst(base))

(* The types that implement the field-ID interface.                        *)
hasFieldIDs(t) == ~type_isa(PropertyKinds, t)

(* OpenBundleType::verify                                                  *)
OpenBundleType_verify(elts, c) ==
    \A i \in 1..Len(elts) :
        /\ hasFieldIDs(elts[i].type)
        /\ ~(containsReference(elts[i].type) /\ c)

(* OpenVectorType::verify                                                  *)
OpenVectorType_verify(e, c) ==
    hasFieldIDs(e) /\ ~(containsReference(e) /\ c)

(* SIntType::verify, UIntType::verify and AnalogType::verify               *)
Width_verify(widthOrSentinel) == ~(widthOrSentinel < -1)

-----------------------------------------------------------------------------
(* Generated universes: every well-formed type of exactly n nodes whose    *)
(* ground and property leaves come from L and whose const, flip and        *)
(* forceable flags come from B.  Element i of a bundle or enum is named    *)
(* FieldNames[i].                                                          *)

U1 == UIntType(1, FALSE)
CU1 == UIntType(1, TRUE)
U2 == UIntType(MaxWidth, FALSE)

RECURSIVE TypesOfSize(_, _, _)
RECURSIVE ElementLists(_, _, _, _)

(* Lists of k types whose node counts add up to n.                         *)
ElementLists(n, k, L, B) ==
    IF k = 0 THEN (IF n = 0 THEN {<<>>} ELSE {})
    ELSE UNION {{<<t>> \o r : t \in TypesOfSize(m, L, B),
                              r \in ElementLists(n - m, k - 1, L, B)} :
                m \in 1..(n - (k - 1))}

(* The verify hook of the kind of t, on t's own parameters.                *)
verify(t) ==
    CASE t.kind = "FEnum" -> FEnum_verify(t.elements, t.isConst)
      [] t.kind = "Ref" -> RefType_verify(t.type, t.forceable)
      [] t.kind = "OpenBundle" -> OpenBundleType_verify(t.elements, t.isConst)
      [] t.kind = "OpenVector" ->
           OpenVectorType_verify(t.elementType, t.isConst)
      [] OTHER -> TRUE

TypesOfSize(n, L, B) ==
    IF n = 1
    THEN L \cup {BundleType(<<>>, c) : c \in B}
           \cup {FEnumType(<<>>, c) : c \in B}
           \cup {OpenBundleType(<<>>, c) : c \in B}
    ELSE
      LET sub == {t \in TypesOfSize(n - 1, L, B) : hasFieldIDs(t)}
          base == {t \in sub : FIRRTLBaseType_classof(t)}
          lists == UNION {ElementLists(n - 1, k, L, B) : k \in 1..(n - 1)}
          openLists == {l \in lists : \A i \in 1..Len(l) : hasFieldIDs(l[i])}
          baseLists ==
              {l \in lists : \A i \in 1..Len(l) : FIRRTLBaseType_classof(l[i])}
          fields(l, fs) == [i \in 1..Len(l) |->
                              BundleElement(FieldNames[i], fs[i], l[i])]
          variants(l) == [i \in 1..Len(l) |-> EnumElement(FieldNames[i], l[i])]
          bundlesOf(ls) ==
              UNION {{fields(l, fs) : fs \in [1..Len(l) -> B]} : l \in ls}
      IN {t \in
           {FVectorType(e, k, c) : e \in base, k \in 0..MaxVecLen, c \in B}
      \cup {OpenVectorType(e, k, c) :
              e \in sub, k \in 0..MaxVecLen,
              c \in B}
      \cup {wrapTypeAlias("T", e) : e \in {s \in sub : s.kind # "Alias"}}
      \cup {RefType(e, f) : e \in base, f \in B}
      \cup {BundleType(elts, c) : elts \in bundlesOf(baseLists), c \in B}
      \cup {FEnumType(variants(l), c) : l \in baseLists, c \in B}
      \cup {OpenBundleType(elts, c) : elts \in bundlesOf(openLists), c \in B}
          : verify(t)}

TypesUpTo(n, L, B) == UNION {TypesOfSize(m, L, B) : m \in 1..n}

(* The universe of the field-ID operations.  Field IDs depend on neither   *)
(* const nor flip, so one non-const leaf and no flag is enough.            *)
FieldTypes(n) == TypesUpTo(n, {U1}, {FALSE})

-----------------------------------------------------------------------------
(* The universe of the decision procedures, called on a (dest, src) pair.  *)

Widths == {-1} \cup 1..MaxWidth

GroundTypes ==
         {[kind |-> k, isConst |-> c] :
            k \in {"Clock", "Reset", "AsyncReset"}, c \in BOOLEAN}
    \cup {[kind |-> k, width |-> w, isConst |-> c] :
            k \in WidthKinds, w \in Widths, c \in BOOLEAN}

Names == {"a", "b"}

(* One-element and two-element bundles over a few leaves.                  *)
Bundle1s ==
    {BundleType(<<BundleElement(n, f, e)>>, c) :
       n \in Names, f \in BOOLEAN, e \in {U1, CU1, U2}, c \in BOOLEAN}

Bundle2s ==
    {BundleType(<<BundleElement(ns[1], f1, U1), BundleElement(ns[2], f2, e)>>,
                FALSE) :
       ns \in {<<"a", "b">>, <<"b", "a">>}, f1 \in BOOLEAN, f2 \in BOOLEAN,
       e \in {U1, U2}}

(* A bundle inside a bundle, each level flipped or not.                    *)
NestedBundles ==
    {BundleType(<<BundleElement("a", f1,
                    BundleType(<<BundleElement("a", f2, U1)>>, c))>>, FALSE) :
       f1 \in BOOLEAN, f2 \in BOOLEAN, c \in BOOLEAN}

Vectors ==
    {FVectorType(e, n, c) :
       e \in {U1, CU1, U2} \cup
             {BundleType(<<BundleElement("a", f, U1)>>, FALSE) :
                f \in BOOLEAN},
       n \in 1..2, c \in BOOLEAN}

Enums ==
    {FEnumType(<<>>, FALSE),
     FEnumType(<<EnumElement("a", U1)>>, FALSE),
     FEnumType(<<EnumElement("a", U1)>>, TRUE),
     FEnumType(<<EnumElement("a", CU1)>>, TRUE),
     FEnumType(<<EnumElement("a", U1), EnumElement("b", U2)>>, FALSE),
     FEnumType(<<EnumElement("a", U1), EnumElement("b", U1)>>, FALSE),
     FEnumType(<<EnumElement("a", U1),
                 EnumElement("b", UIntType(-1, FALSE))>>, FALSE),
     FEnumType(<<EnumElement("b", U1)>>, FALSE)}

Refs ==
    {RefType(b, f) :
       b \in {U1, CU1, UIntType(-1, FALSE),
              BundleType(<<BundleElement("a", FALSE, U1)>>, FALSE)},
       f \in {FALSE}}
    \cup {RefType(U1, TRUE)}

Aliases ==
    {wrapTypeAlias("T", t) :
       t \in {U1, CU1, SIntType(MaxWidth, FALSE), ResetType(FALSE),
              BundleType(<<BundleElement("a", FALSE, U1)>>, FALSE),
              FVectorType(U1, 2, FALSE), RefType(U1, FALSE),
              FEnumType(<<EnumElement("a", U1)>>, FALSE)}}
    \cup {BundleType(<<BundleElement("a", FALSE, wrapTypeAlias("T", U1))>>,
                     FALSE),
          FVectorType(wrapTypeAlias("T", U1), 2, FALSE)}

OpenTypes ==
    {OpenBundleType(<<BundleElement("a", FALSE, RefType(U1, FALSE))>>, FALSE),
     OpenBundleType(<<BundleElement("a", FALSE, U1)>>, TRUE),
     OpenVectorType(RefType(U1, FALSE), 2, FALSE),
     OpenVectorType(U1, 2, TRUE)}

PairTypes ==
    GroundTypes \cup {StringType, BigIntType}
    \cup {BundleType(<<>>, c) : c \in BOOLEAN}
    \cup Bundle1s \cup Bundle2s \cup NestedBundles \cup Vectors \cup Enums
    \cup Refs \cup Aliases \cup OpenTypes

-----------------------------------------------------------------------------
(* The decision procedures as a state machine: one call per behaviour on   *)
(* the pair (dest, src); flags holds the call's flag arguments.            *)

NoFlags == [none |-> TRUE]
NoPair == SubType(NullType, 0)

Init ==
    /\ dest \in PairTypes
    /\ src \in PairTypes
    /\ flags = NoFlags
    /\ fieldID = 0
    /\ index = 0
    /\ op = "none"
    /\ result = NullType
    /\ pair = NoPair
    /\ iters = 0

AreTypesEquivalent(destOuterTypeIsConst, srcOuterTypeIsConst, requireSameWidths) ==
    /\ op = "none"
    /\ op' = "areTypesEquivalent"
    /\ flags' = [destOuterTypeIsConst |-> destOuterTypeIsConst,
                 srcOuterTypeIsConst |-> srcOuterTypeIsConst,
                 requireSameWidths |-> requireSameWidths]
    /\ result' = areTypesEquivalent(dest, src, destOuterTypeIsConst,
                                    srcOuterTypeIsConst, requireSameWidths)
    /\ UNCHANGED <<dest, src, fieldID, index, pair, iters>>

AreTypesWeaklyEquivalent(destFlip, srcFlip, destOuterTypeIsConst, srcOuterTypeIsConst) ==
    /\ op = "none"
    /\ op' = "areTypesWeaklyEquivalent"
    /\ flags' = [destFlip |-> destFlip, srcFlip |-> srcFlip,
                 destOuterTypeIsConst |-> destOuterTypeIsConst,
                 srcOuterTypeIsConst |-> srcOuterTypeIsConst]
    /\ result' = areTypesWeaklyEquivalent(dest, src, destFlip, srcFlip,
                     destOuterTypeIsConst, srcOuterTypeIsConst)
    /\ UNCHANGED <<dest, src, fieldID, index, pair, iters>>

AreTypesConstCastable(srcOuterTypeIsConst) ==
    /\ op = "none"
    /\ op' = "areTypesConstCastable"
    /\ flags' = [srcOuterTypeIsConst |-> srcOuterTypeIsConst]
    /\ result' = areTypesConstCastable(dest, src, srcOuterTypeIsConst)
    /\ UNCHANGED <<dest, src, fieldID, index, pair, iters>>

AreTypesRefCastable ==
    /\ op = "none"
    /\ op' = "areTypesRefCastable"
    /\ result' = areTypesRefCastable(dest, src)
    /\ UNCHANGED <<dest, src, flags, fieldID, index, pair, iters>>

(* isTypeLarger takes two FIRRTLBaseType arguments.                        *)
IsTypeLarger ==
    /\ op = "none"
    /\ FIRRTLBaseType_classof(dest)
    /\ FIRRTLBaseType_classof(src)
    /\ op' = "isTypeLarger"
    /\ result' = isTypeLarger(dest, src)
    /\ UNCHANGED <<dest, src, flags, fieldID, index, pair, iters>>

Next ==
    \/ \E dc \in BOOLEAN, sc \in BOOLEAN, w \in BOOLEAN :
           AreTypesEquivalent(dc, sc, w)
    \/ \E df \in BOOLEAN, sf \in BOOLEAN, dc \in BOOLEAN, sc \in BOOLEAN :
           AreTypesWeaklyEquivalent(df, sf, dc, sc)
    \/ \E sc \in BOOLEAN : AreTypesConstCastable(sc)
    \/ AreTypesRefCastable
    \/ IsTypeLarger

Spec == Init /\ [][Next]_vars

-----------------------------------------------------------------------------
(* The same calls with their default flags on a pair (t, t), t drawn from  *)
(* every well-formed type of at most MaxSelfNodes nodes.                   *)

SelfLeaves ==
    {t \in GroundTypes : ~t.isConst} \cup {CU1, StringType, BigIntType}

SelfTypes(n) == GroundTypes \cup TypesUpTo(n, SelfLeaves, BOOLEAN)

InitSelf ==
    /\ dest \in SelfTypes(MaxSelfNodes)
    /\ src = dest
    /\ flags = NoFlags
    /\ fieldID = 0
    /\ index = 0
    /\ op = "none"
    /\ result = NullType
    /\ pair = NoPair
    /\ iters = 0

NextDefault ==
    \/ AreTypesEquivalent(FALSE, FALSE, FALSE)
    \/ AreTypesWeaklyEquivalent(FALSE, FALSE, FALSE, FALSE)
    \/ AreTypesConstCastable(FALSE)
    \/ AreTypesRefCastable
    \/ IsTypeLarger

SpecSelf == InitSelf /\ [][NextDefault]_vars

-----------------------------------------------------------------------------
(* Properties of the decision procedures.                                  *)

DefaultEquivalenceFlags ==
    [destOuterTypeIsConst |-> FALSE, srcOuterTypeIsConst |-> FALSE,
     requireSameWidths |-> FALSE]

(* C1: areTypesEquivalent(t, t) with the default flags is true for every   *)
(* type t: ground, bundle with or without flips, vector, enum, const or    *)
(* not, alias, reference or property type.  Checked under SpecSelf.        *)
C1_Reflexive ==
    (op = "areTypesEquivalent" /\ src = dest
       /\ flags = DefaultEquivalenceFlags) => result = "true"

(* A const bundle with a flipped element compared with itself.             *)
C1_Witness ==
    /\ op = "areTypesEquivalent"
    /\ src = dest
    /\ flags = DefaultEquivalenceFlags
    /\ dest.kind = "Bundle"
    /\ dest.isConst
    /\ Len(dest.elements) = 2
    /\ dest.elements[1].isFlip
    /\ dest.elements[2].type = CU1
    /\ result = "true"

(* The call of the current state repeated on another pair of types.        *)
ApplyOp(d, s) ==
    CASE op = "areTypesEquivalent" ->
           areTypesEquivalent(d, s, flags.destOuterTypeIsConst,
               flags.srcOuterTypeIsConst, flags.requireSameWidths)
      [] op = "areTypesWeaklyEquivalent" ->
           areTypesWeaklyEquivalent(d, s, flags.destFlip, flags.srcFlip,
               flags.destOuterTypeIsConst, flags.srcOuterTypeIsConst)
      [] op = "areTypesConstCastable" ->
           areTypesConstCastable(d, s, flags.srcOuterTypeIsConst)
      [] op = "areTypesRefCastable" -> areTypesRefCastable(d, s)

(* t with its first nested position replaced by an alias of what is there. *)
AliasNested(t) ==
    CASE t.kind \in {"Bundle", "FEnum"} /\ Len(t.elements) > 0 ->
           [t EXCEPT !.elements[1].type = wrapTypeAlias("n", @)]
      [] t.kind = "FVector" ->
           [t EXCEPT !.elementType = wrapTypeAlias("n", @)]
      [] t.kind = "Ref" -> [t EXCEPT !.type = wrapTypeAlias("n", @)]
      [] OTHER -> t

(* t, t as an alias, and t with an alias at a nested position.             *)
AliasVariants(t) ==
    {t, AliasNested(t)}
    \cup (IF t.kind = "Ref" THEN {} ELSE {wrapTypeAlias("n", t)})

(* C2 as stated: each of areTypesEquivalent, areTypesWeaklyEquivalent,     *)
(* areTypesConstCastable and, for references, areTypesRefCastable gives    *)
(* the same answer when a base type is replaced by an alias of it, at the  *)
(* root or at a nested position, on the destination or the source side.    *)
C2_Original ==
    (/\ op \in {"areTypesEquivalent", "areTypesWeaklyEquivalent",
                 "areTypesConstCastable", "areTypesRefCastable"}
     /\ op = "areTypesRefCastable" => (dest.kind = "Ref" /\ src.kind = "Ref")
     /\ op # "areTypesRefCastable" =>
           (FIRRTLBaseType_classof(dest) /\ FIRRTLBaseType_classof(src)))
    => \A d \in AliasVariants(dest), s \in AliasVariants(src) :
           ApplyOp(d, s) = result

(* C3 as stated: each of the five decision procedures returns true or      *)
(* false on every pair of types and never ends in an assertion failure.    *)
C3_Original ==
    op \in {"areTypesEquivalent", "areTypesWeaklyEquivalent",
            "areTypesConstCastable", "areTypesRefCastable", "isTypeLarger"}
    => result \in {"true", "false"}

(* C10: for two bundles D and S, weak equivalence holds exactly when every *)
(* element name that occurs in both has weakly equivalent element types,   *)
(* each side's flip being the call's flip XOR the element's flip; a name   *)
(* on one side only never rejects.  Strict equivalence is false when the   *)
(* element counts differ: Bundle{a, b} against Bundle{a} is weakly but not *)
(* strictly equivalent.                                                    *)
C10_MissingFieldTolerance ==
    LET D == type_cast_any(dest)
        S == type_cast_any(src)
        common == {ij \in (1..Len(D.elements)) \X (1..Len(S.elements)) :
                     D.elements[ij[1]].name = S.elements[ij[2]].name}
    IN (D.kind = "Bundle" /\ S.kind = "Bundle") =>
        /\ op = "areTypesWeaklyEquivalent" =>
             (result = "true" <=>
                \A ij \in common :
                   areTypesWeaklyEquivalent(
                       D.elements[ij[1]].type, S.elements[ij[2]].type,
                       flags.destFlip # D.elements[ij[1]].isFlip,
                       flags.srcFlip # S.elements[ij[2]].isFlip,
                       flags.destOuterTypeIsConst,
                       flags.srcOuterTypeIsConst) = "true")
        /\ (op = "areTypesWeaklyEquivalent" /\ common = {})
               => result = "true"
        /\ (op = "areTypesEquivalent"
              /\ Len(D.elements) # Len(S.elements)) => result = "false"

(* Bundle{a, b} against Bundle{a}: weakly equivalent.                      *)
C10_Witness ==
    /\ op = "areTypesWeaklyEquivalent"
    /\ flags = [destFlip |-> FALSE, srcFlip |-> FALSE,
                destOuterTypeIsConst |-> FALSE, srcOuterTypeIsConst |-> FALSE]
    /\ dest = BundleType(<<BundleElement("a", FALSE, U1),
                           BundleElement("b", FALSE, U1)>>, FALSE)
    /\ src = BundleType(<<BundleElement("a", FALSE, U1)>>, FALSE)
    /\ result = "true"
    /\ areTypesEquivalent(dest, src, FALSE, FALSE, FALSE) = "false"

(* The widths of both types are known and differ.                          *)
KnownDifferentWidths(d, s) == hasWidth(d) /\ hasWidth(s) /\ d.width # s.width

(* The effective const flags of the call of the current state.             *)
EffectiveDestConst == flags.destOuterTypeIsConst \/ isConst(dest)
EffectiveSrcConst == flags.srcOuterTypeIsConst \/ isConst(src)

(* Two enums with the same variant names, position by position.            *)
SameVariantNames(d, s) ==
    /\ Len(d.elements) = Len(s.elements)
    /\ \A i \in 1..Len(d.elements) : d.elements[i].name = s.elements[i].name

(* C11: for two integer or analog ground types of the same kind (const     *)
(* compatible, as every ground pair must be), areTypesEquivalent ignores   *)
(* the widths when requireSameWidths is false, and when it is true it      *)
(* rejects exactly the pairs whose widths are both known and different.    *)
(* Enum variants are compared with requireSameWidths = true whatever the   *)
(* caller passed: two enums with the same variant names whose variants     *)
(* are integers of one kind are equivalent exactly when no variant pair    *)
(* has known and different widths.                                         *)
C11_WidthHandling ==
    op = "areTypesEquivalent" =>
      /\ (dest.kind \in WidthKinds /\ src.kind = dest.kind) =>
            result = Bool3(/\ isConstCompatible(EffectiveDestConst,
                                                EffectiveSrcConst)
                           /\ ~(flags.requireSameWidths
                                 /\ KnownDifferentWidths(dest, src)))
      /\ (/\ dest.kind = "FEnum" /\ src.kind = "FEnum"
          /\ SameVariantNames(dest, src)
          /\ \A i \in 1..Len(dest.elements) :
                /\ dest.elements[i].type.kind \in WidthKinds
                /\ src.elements[i].type.kind = dest.elements[i].type.kind
                /\ isConstCompatible(
                      EffectiveDestConst \/ dest.elements[i].type.isConst,
                      EffectiveSrcConst \/ src.elements[i].type.isConst)) =>
            result = Bool3(\A i \in 1..Len(dest.elements) :
                             ~KnownDifferentWidths(dest.elements[i].type,
                                                   src.elements[i].type))

(* Enum{a: UInt<1>, b: UInt<2>} against Enum{a: UInt<1>, b: UInt<1>} with  *)
(* requireSameWidths = false: not equivalent.                              *)
C11_Witness ==
    /\ op = "areTypesEquivalent"
    /\ ~flags.requireSameWidths
    /\ dest = FEnumType(<<EnumElement("a", U1), EnumElement("b", U2)>>, FALSE)
    /\ src = FEnumType(<<EnumElement("a", U1), EnumElement("b", U1)>>, FALSE)
    /\ result = "false"

RECURSIVE SameShape(_, _)
(* Two alias-free types built from ground types, bundles and vectors with  *)
(* the same aggregate kind at every level and the same element names and   *)
(* flips position by position.                                             *)
SameShape(d, s) ==
    CASE d.kind \in GroundKinds -> s.kind \in GroundKinds
      [] d.kind = "Bundle" ->
           /\ s.kind = "Bundle"
           /\ Len(d.elements) = Len(s.elements)
           /\ \A i \in 1..Len(d.elements) :
                 /\ d.elements[i].name = s.elements[i].name
                 /\ d.elements[i].isFlip = s.elements[i].isFlip
                 /\ SameShape(d.elements[i].type, s.elements[i].type)
      [] d.kind = "FVector" ->
           /\ s.kind = "FVector"
           /\ SameShape(d.elementType, s.elementType)
      [] OTHER -> FALSE

(* The width of a ground type: -1 when unknown, 1 for clocks and resets.   *)
GroundWidth(t) == IF t.kind \in WidthKinds THEN t.width ELSE 1

RECURSIVE AtLeastAsWide(_, _)
(* What the claim states: on ground types the destination width is         *)
(* unknown, or the source width is unknown, or it is at least the source   *)
(* width; on bundles the conjunction over the elements with the arguments  *)
(* swapped on a flipped element; on vectors the result on the elements.    *)
AtLeastAsWide(d, s) ==
    CASE d.kind \in GroundKinds ->
           \/ GroundWidth(d) = -1
           \/ GroundWidth(s) = -1
           \/ GroundWidth(d) >= GroundWidth(s)
      [] d.kind = "Bundle" ->
           \A i \in 1..Len(d.elements) :
               IF d.elements[i].isFlip
               THEN AtLeastAsWide(s.elements[i].type, d.elements[i].type)
               ELSE AtLeastAsWide(d.elements[i].type, s.elements[i].type)
      [] d.kind = "FVector" -> AtLeastAsWide(d.elementType, s.elementType)

(* C12: isTypeLarger on ground types is true iff the destination width is  *)
(* unknown, or the source width is unknown, or the destination width is at *)
(* least the source width; on bundles of equal shape it is the conjunction *)
(* over the elements, destination and source swapped on every flipped      *)
(* element; on vectors it is the result on the element types.              *)
C12_IsTypeLarger ==
    (op = "isTypeLarger" /\ SameShape(dest, src)) =>
        result = Bool3(AtLeastAsWide(dest, src))

(* Bundle{a flip: UInt<1>} against Bundle{a flip: UInt<2>}: the swap makes *)
(* the destination large enough although UInt<1> alone is not.             *)
C12_Witness ==
    /\ op = "isTypeLarger"
    /\ dest = BundleType(<<BundleElement("a", TRUE, U1)>>, FALSE)
    /\ src = BundleType(<<BundleElement("a", TRUE, U2)>>, FALSE)
    /\ result = "true"
    /\ isTypeLarger(U1, U2) = "false"
    /\ isTypeLarger(U2, U1) = "true"
    /\ isTypeLarger(UIntType(-1, FALSE), U2) = "true"

RECURSIVE IsPlainType(_)
(* An alias-free type built from ground types, bundles and vectors.        *)
IsPlainType(t) ==
    CASE t.kind \in GroundKinds -> TRUE
      [] t.kind = "Bundle" ->
           \A i \in 1..Len(t.elements) : IsPlainType(t.elements[i].type)
      [] t.kind = "FVector" -> IsPlainType(t.elementType)
      [] OTHER -> FALSE

RECURSIVE HasFlip(_)
(* Some bundle element of t, at any depth, is flipped.                     *)
HasFlip(t) ==
    CASE t.kind = "Bundle" ->
           \E i \in 1..Len(t.elements) :
               t.elements[i].isFlip \/ HasFlip(t.elements[i].type)
      [] t.kind = "FVector" -> HasFlip(t.elementType)
      [] t.kind = "Alias" -> HasFlip(t.innerType)
      [] OTHER -> FALSE

RECURSIVE ConstDroppedFrom(_, _, _)
(* What the claim states about two plain types: identical shape, the same  *)
(* ground kind and width at every leaf, and at every node a const d has a  *)
(* source that is const there, or under a const enclosing node, or under   *)
(* srcOuterConst.                                                          *)
ConstDroppedFrom(d, s, srcOuterConst) ==
    /\ d.kind = s.kind
    /\ d.isConst => (s.isConst \/ srcOuterConst)
    /\ CASE d.kind \in WidthKinds -> d.width = s.width
         [] d.kind = "Bundle" ->
              /\ Len(d.elements) = Len(s.elements)
              /\ \A i \in 1..Len(d.elements) :
                    /\ d.elements[i].name = s.elements[i].name
                    /\ ConstDroppedFrom(d.elements[i].type, s.elements[i].type,
                                        s.isConst \/ srcOuterConst)
         [] d.kind = "FVector" ->
              /\ d.numElements = s.numElements
              /\ ConstDroppedFrom(d.elementType, s.elementType,
                                  s.isConst \/ srcOuterConst)
         [] OTHER -> TRUE

(* C13: over ground, vector and bundle types areTypesConstCastable(d, s,   *)
(* srcOuterConst) is true iff d and s are the identical type, or both are  *)
(* passive, of identical shape with the same ground kind and width at      *)
(* every leaf, and at every node d being const implies that s is const     *)
(* there or under an enclosing node or srcOuterConst: const may be dropped *)
(* but never added.                                                        *)
C13_ConstCastable ==
    (op = "areTypesConstCastable" /\ IsPlainType(dest) /\ IsPlainType(src)) =>
        result = Bool3(\/ dest = src
                       \/ /\ ~HasFlip(dest)
                          /\ ~HasFlip(src)
                          /\ ConstDroppedFrom(dest, src,
                                              flags.srcOuterTypeIsConst))

(* B = Bundle{a: UInt<1>}: const B casts to B, B does not cast to const B. *)
C13_Witness ==
    /\ op = "areTypesConstCastable"
    /\ ~flags.srcOuterTypeIsConst
    /\ dest = BundleType(<<BundleElement("a", FALSE, U1)>>, FALSE)
    /\ src = BundleType(<<BundleElement("a", FALSE, U1)>>, TRUE)
    /\ result = "true"
    /\ areTypesConstCastable(src, dest, FALSE) = "false"

RECURSIVE PositionalAndConstCompatible(_, _, _, _)
(* What the claim requires of two equivalent plain types: bundles agree in *)
(* element count and, position by position, in name and flip; under a      *)
(* flipped element the roles and their outer-const flags are swapped; at   *)
(* a ground pair the effective destination is not const over a non-const   *)
(* effective source.                                                       *)
PositionalAndConstCompatible(d, s, dOuterConst, sOuterConst) ==
    LET dConst == dOuterConst \/ d.isConst
        sConst == sOuterConst \/ s.isConst
    IN CASE d.kind = "Bundle" /\ s.kind = "Bundle" ->
              /\ Len(d.elements) = Len(s.elements)
              /\ \A i \in 1..Len(d.elements) :
                    /\ d.elements[i].name = s.elements[i].name
                    /\ d.elements[i].isFlip = s.elements[i].isFlip
                    /\ IF d.elements[i].isFlip
                       THEN PositionalAndConstCompatible(s.elements[i].type,
                                d.elements[i].type, sConst, dConst)
                       ELSE PositionalAndConstCompatible(d.elements[i].type,
                                s.elements[i].type, dConst, sConst)
         [] d.kind = "FVector" /\ s.kind = "FVector" ->
              PositionalAndConstCompatible(d.elementType, s.elementType,
                                           dConst, sConst)
         [] OTHER -> ~(dConst /\ ~sConst)

(* C15: two bundles are strictly equivalent only if they have the same     *)
(* element count and the same name and flip at every position, and a       *)
(* ground pair is rejected when the effective destination is const and the *)
(* effective source is not, the roles and outer-const flags being swapped  *)
(* under each flipped element.                                             *)
C15_PositionalDirectionAware ==
    (op = "areTypesEquivalent" /\ IsPlainType(dest) /\ IsPlainType(src)
       /\ result = "true") =>
        PositionalAndConstCompatible(dest, src, flags.destOuterTypeIsConst,
                                     flags.srcOuterTypeIsConst)

(* Bundle{a flip: const UInt<1>} is equivalent to Bundle{a flip: UInt<1>}  *)
(* and not the other way round; for the bare leaves it is the reverse.     *)
C15_Witness ==
    /\ op = "areTypesEquivalent"
    /\ flags = DefaultEquivalenceFlags
    /\ dest = BundleType(<<BundleElement("a", TRUE, CU1)>>, FALSE)
    /\ src = BundleType(<<BundleElement("a", TRUE, U1)>>, FALSE)
    /\ result = "true"
    /\ areTypesEquivalent(src, dest, FALSE, FALSE, FALSE) = "false"
    /\ areTypesEquivalent(CU1, U1, FALSE, FALSE, FALSE) = "false"
    /\ areTypesEquivalent(U1, CU1, FALSE, FALSE, FALSE) = "true"

(* The call of the current state compares the abstract Reset with a ground *)
(* type, in either position, and its arguments are const compatible: for   *)
(* areTypesEquivalent the effective destination is not const over a        *)
(* non-const source; for areTypesWeaklyEquivalent the orientations are     *)
(* equal and the effective const flags agree.                              *)
ResetAgainstGround ==
    /\ dest.kind \in GroundKinds /\ src.kind \in GroundKinds
    /\ dest.kind = "Reset" \/ src.kind = "Reset"
    /\ \/ /\ op = "areTypesEquivalent"
          /\ isConstCompatible(EffectiveDestConst, EffectiveSrcConst)
       \/ /\ op = "areTypesWeaklyEquivalent"
          /\ flags.destFlip = flags.srcFlip
          /\ EffectiveDestConst = EffectiveSrcConst

(* The ground type facing Reset in the call of the current state.          *)
ResetPartner == IF dest.kind = "Reset" THEN src ELSE dest

(* C16 as stated: Reset unifies exactly with a 1-bit UInt, AsyncReset and  *)
(* Reset, in either direction, under both equivalences and independently   *)
(* of requireSameWidths.                                                   *)
C16_Original ==
    ResetAgainstGround =>
        result = Bool3(\/ ResetPartner.kind \in {"Reset", "AsyncReset"}
                       \/ ResetPartner.kind = "UInt" /\ ResetPartner.width = 1)

(* C16 amended: Reset unifies exactly with a 1-bit UInt, a UInt of         *)
(* uninferred width, AsyncReset and Reset, in either direction, under both *)
(* equivalences and independently of requireSameWidths; every other ground *)
(* type (Clock, SInt, Analog, UInt of a known width other than 1) is       *)
(* rejected.                                                               *)
C16_ResetUnification ==
    ResetAgainstGround =>
        result = Bool3(\/ ResetPartner.kind \in {"Reset", "AsyncReset"}
                       \/ /\ ResetPartner.kind = "UInt"
                          /\ ResetPartner.width \in {-1, 1})

(* AsyncReset driven by Reset with requireSameWidths set.                  *)
C16_Witness ==
    /\ op = "areTypesEquivalent"
    /\ flags.requireSameWidths
    /\ dest = AsyncResetType(FALSE)
    /\ src = ResetType(FALSE)
    /\ result = "true"
    /\ areTypesEquivalent(ResetType(FALSE), UIntType(-1, FALSE),
                          FALSE, FALSE, TRUE) = "true"
    /\ areTypesWeaklyEquivalent(ResetType(FALSE), U2,
                                FALSE, FALSE, FALSE, FALSE) = "false"

(* The const-direction rule of the claim for two ground leaves of equal    *)
(* orientation: not flipped, a const destination over a non-const source   *)
(* is rejected; flipped, a const source over a non-const destination is.   *)
ConstDirectionCompatible(flipped, destIsConst, srcIsConst) ==
    IF flipped THEN ~(srcIsConst /\ ~destIsConst)
    ELSE ~(destIsConst /\ ~srcIsConst)

(* C17: two vectors are weakly equivalent iff their element types are,     *)
(* whatever their lengths; two ground leaves are weakly equivalent only if *)
(* their accumulated orientations are equal and they are const-direction   *)
(* compatible (not flipped: a const destination with a non-const source is *)
(* rejected; flipped: a const source with a non-const destination is       *)
(* rejected); after that widths and const flags are ignored and the ground *)
(* kinds must match.                                                       *)
C17_Original ==
    op = "areTypesWeaklyEquivalent" =>
      /\ (dest.kind = "FVector" /\ src.kind = "FVector") =>
            result = areTypesWeaklyEquivalent(dest.elementType,
                         src.elementType, flags.destFlip, flags.srcFlip,
                         EffectiveDestConst, EffectiveSrcConst)
      /\ (/\ dest.kind \in GroundKinds \ {"Reset"}
          /\ src.kind \in GroundKinds \ {"Reset"}) =>
            result = Bool3(/\ flags.destFlip = flags.srcFlip
                           /\ ConstDirectionCompatible(flags.destFlip,
                                  EffectiveDestConst, EffectiveSrcConst)
                           /\ dest.kind = src.kind)

(* What the ground case computes instead: with equal orientations a const  *)
(* mismatch is rejected in both directions when the leaves are flipped and *)
(* in neither direction when they are not.                                 *)
C17_GroundCaseAsCoded ==
    (/\ op = "areTypesWeaklyEquivalent"
     /\ dest.kind \in GroundKinds \ {"Reset"}
     /\ src.kind \in GroundKinds \ {"Reset"}) =>
        result = Bool3(/\ flags.destFlip = flags.srcFlip
                       /\ flags.destFlip =>
                             (EffectiveDestConst = EffectiveSrcConst)
                       /\ dest.kind = src.kind)

(* The vector part of the claim alone.                                     *)
C17_VectorsByElement ==
    (/\ op = "areTypesWeaklyEquivalent"
     /\ dest.kind = "FVector" /\ src.kind = "FVector") =>
        result = areTypesWeaklyEquivalent(dest.elementType, src.elementType,
                     flags.destFlip, flags.srcFlip, EffectiveDestConst,
                     EffectiveSrcConst)

-----------------------------------------------------------------------------
(* areTypesRefCastable on pairs of references.  The referenced types are   *)
(* passive base types: ground leaves of every kind but Analog, const or    *)
(* not, and bundles, vectors and enums over them.                          *)

RefLeaves ==
    {t \in GroundTypes : t.kind # "Analog" /\ (t.kind = "SInt" => ~t.isConst)}

RefAggregates ==
         {BundleType(<<BundleElement(n, FALSE, e)>>, c) :
            n \in Names, e \in {U1, CU1, U2, UIntType(-1, FALSE)},
            c \in BOOLEAN}
    \cup {BundleType(<<BundleElement("a", FALSE, U1),
                       BundleElement("b", FALSE, e)>>, FALSE) :
            e \in {ResetType(FALSE), AsyncResetType(FALSE), U1}}
    \cup {FVectorType(e, n, c) :
            e \in {U1, CU1, UIntType(-1, FALSE), ResetType(FALSE)},
            n \in 1..2, c \in BOOLEAN}
    \cup {FEnumType(<<EnumElement("a", e)>>, FALSE) :
            e \in {U1, U2, UIntType(-1, FALSE)}}
    \cup {FEnumType(<<EnumElement("a", e)>>, TRUE) : e \in {U1, CU1}}
    \cup {FEnumType(<<EnumElement("b", U1)>>, FALSE)}

RefBases == RefLeaves \cup RefAggregates

RefPairTypes ==
         {RefType(b, FALSE) : b \in RefBases}
    \cup {RefType(b, TRUE) : b \in {x \in RefBases : RefType_verify(x, TRUE)}}
    \cup {U1, ResetType(FALSE), StringType,
          BundleType(<<BundleElement("a", FALSE, U1)>>, FALSE)}

InitRef ==
    /\ dest \in RefPairTypes
    /\ src \in RefPairTypes
    /\ flags = NoFlags
    /\ fieldID = 0
    /\ index = 0
    /\ op = "none"
    /\ result = NullType
    /\ pair = NoPair
    /\ iters = 0

NextRef == AreTypesRefCastable

SpecRef == InitRef /\ [][NextRef]_vars

(* The reset types a destination leaf Reset accepts: what isResetType      *)
(* documents (abstract reset, asynchronous reset, 1-bit UInt, UInt of      *)
(* uninferred width).                                                      *)
IsAnyResetType(t) ==
    \/ t.kind \in {"Reset", "AsyncReset"}
    \/ t.kind = "UInt" /\ t.width \in {-1, 1}

RECURSIVE RefStructureCastable(_, _, _)
(* What the claim states about the referenced types: identical structure,  *)
(* except that a leaf of d may be Reset over any reset type, or an integer *)
(* of unknown width over the same kind of integer; const may be dropped    *)
(* from s (also by an enclosing const node) and not added.                 *)
RefStructureCastable(d, s, srcOuterConst) ==
    /\ d.isConst => (s.isConst \/ srcOuterConst)
    /\ CASE d.kind = "Reset" -> IsAnyResetType(s)
         [] d.kind \in {"Clock", "AsyncReset"} -> s.kind = d.kind
         [] d.kind \in WidthKinds ->
              s.kind = d.kind /\ (d.width = -1 \/ d.width = s.width)
         [] d.kind \in {"Bundle", "FEnum"} ->
              /\ s.kind = d.kind
              /\ Len(d.elements) = Len(s.elements)
              /\ \A i \in 1..Len(d.elements) :
                    /\ d.elements[i].name = s.elements[i].name
                    /\ RefStructureCastable(d.elements[i].type,
                           s.elements[i].type, s.isConst \/ srcOuterConst)
         [] d.kind = "FVector" ->
              /\ s.kind = "FVector"
              /\ d.numElements = s.numElements
              /\ RefStructureCastable(d.elementType, s.elementType,
                                      s.isConst \/ srcOuterConst)

(* The answer the claim requires of areTypesRefCastable(d, s).             *)
RefCastableAsClaimed(d, s) ==
    /\ d.kind = "Ref" /\ s.kind = "Ref"
    /\ ~(d.forceable /\ ~s.forceable)
    /\ RefStructureCastable(d.type, s.type, FALSE)

(* C14: areTypesRefCastable(d, s) is false unless both are reference       *)
(* types; a forceable d with a non-forceable s is rejected; otherwise the  *)
(* referenced types must have identical structure, except that a leaf of d *)
(* may be Reset where the leaf of s is any reset type, or an integer of    *)
(* unknown width where the leaf of s is the same integer kind with a known *)
(* width, and const may be dropped from s but not added.  The reverse      *)
(* relaxations are rejected.                                               *)
C14_Original ==
    op = "areTypesRefCastable" =>
        result = Bool3(RefCastableAsClaimed(dest, src))

RECURSIVE HasConstEnum(_)
(* t contains an enum with a const variant type.                           *)
HasConstEnum(t) ==
    CASE t.kind = "FEnum" ->
           \E i \in 1..Len(t.elements) : containsConst(t.elements[i].type)
      [] t.kind = "Bundle" ->
           \E i \in 1..Len(t.elements) : HasConstEnum(t.elements[i].type)
      [] t.kind = "FVector" -> HasConstEnum(t.elementType)
      [] t.kind = "Ref" -> HasConstEnum(t.type)
      [] OTHER -> FALSE

(* The claimed answer is the one given whenever the source holds no enum   *)
(* with const variants.                                                    *)
C14_WithoutConstEnum ==
    (op = "areTypesRefCastable" /\ ~HasConstEnum(src)) =>
        result = Bool3(RefCastableAsClaimed(dest, src))

(* The relaxations go one way only.                                        *)
C14_Directional ==
    /\ areTypesRefCastable(RefType(ResetType(FALSE), FALSE),
                           RefType(AsyncResetType(FALSE), FALSE)) = "true"
    /\ areTypesRefCastable(RefType(AsyncResetType(FALSE), FALSE),
                           RefType(ResetType(FALSE), FALSE)) = "false"
    /\ areTypesRefCastable(RefType(U1, FALSE),
                           RefType(ResetType(FALSE), FALSE)) = "false"
    /\ areTypesRefCastable(RefType(UIntType(-1, FALSE), FALSE),
                           RefType(U2, FALSE)) = "true"
    /\ areTypesRefCastable(RefType(U2, FALSE),
                           RefType(UIntType(-1, FALSE), FALSE)) = "false"

-----------------------------------------------------------------------------
(* The field-ID operations as a state machine.  dest is the type the       *)
(* operation is called on; op names the last call and result holds what    *)
(* it returned.                                                            *)

InitField ==
    /\ dest \in FieldTypes(MaxNodes)
    /\ src = NullType
    /\ flags = NoFlags
    /\ fieldID = 0
    /\ index = 0
    /\ op = "none"
    /\ result = NullType
    /\ pair = NoPair
    /\ iters = 0

(* The field IDs an operation is called with: every ID of dest and one     *)
(* past the last.                                                          *)
FieldIDsOf(t) == 0..(getMaxFieldID(t) + 1)

(* The valid element indices of t.                                         *)
IndicesOf(t) ==
    LET a == type_cast_any(t) IN
    IF a.kind \in BundleLikeKinds \cup VectorLikeKinds
    THEN 0..(getNumElements(a) - 1)
    ELSE {}

GetMaxFieldID ==
    /\ op = "none"
    /\ op' = "getMaxFieldID"
    /\ result' = getMaxFieldID(dest)
    /\ fieldID' = 0 /\ index' = 0 /\ pair' = NoPair /\ iters' = 0
    /\ UNCHANGED <<dest, src, flags>>

GetFieldID(i) ==
    /\ op = "none"
    /\ i \in IndicesOf(dest)
    /\ op' = "getFieldID"
    /\ index' = i
    /\ result' = getFieldID(dest, i)
    /\ fieldID' = 0 /\ pair' = NoPair /\ iters' = 0
    /\ UNCHANGED <<dest, src, flags>>

GetSubTypeByFieldID(fid) ==
    /\ op = "none"
    /\ op' = "getSubTypeByFieldID"
    /\ fieldID' = fid
    /\ result' = getSubTypeByFieldID(dest, fid)
    /\ index' = 0 /\ pair' = NoPair /\ iters' = 0
    /\ UNCHANGED <<dest, src, flags>>

RootChildFieldID(fid, i) ==
    /\ op = "none"
    /\ i \in IndicesOf(dest) \cup
             (IF type_isa(GroundKinds \cup {"Ref"}, dest) THEN {0} ELSE {})
    /\ op' = "rootChildFieldID"
    /\ fieldID' = fid
    /\ index' = i
    /\ result' = rootChildFieldID(dest, fid, i)
    /\ pair' = NoPair /\ iters' = 0
    /\ UNCHANGED <<dest, src, flags>>

(* Entry of getFinalTypeByFieldID: pair = <<this type, fieldID>>.          *)
GetFinalTypeByFieldID(fid) ==
    /\ op = "none"
    /\ fieldID' = fid
    /\ pair' = IF type_cast_any(dest).kind = "Ref"
               THEN Ref_getFinalTypeByFieldID(type_cast_any(dest), fid)
               ELSE SubType(dest, fid)
    /\ op' = "getFinalTypeByFieldID:loop"
    /\ iters' = 0
    /\ result' = NullType
    /\ index' = 0
    /\ UNCHANGED <<dest, src, flags>>

(* One iteration of `while (pair.second)`.                                 *)
GetFinalTypeByFieldID_iterate ==
    /\ op = "getFinalTypeByFieldID:loop"
    /\ ~pair.fatal
    /\ pair.id # 0
    /\ pair' = getSubTypeByFieldID(pair.type, pair.id)
    /\ iters' = iters + 1
    /\ UNCHANGED <<dest, src, flags, fieldID, index, op, result>>

(* Loop exit: return pair.first.                                           *)
GetFinalTypeByFieldID_return ==
    /\ op = "getFinalTypeByFieldID:loop"
    /\ ~pair.fatal
    /\ pair.id = 0
    /\ op' = "getFinalTypeByFieldID"
    /\ result' = pair.type
    /\ UNCHANGED <<dest, src, flags, fieldID, index, pair, iters>>

(* The loop body ran into an assertion: the call never returns.            *)
GetFinalTypeByFieldID_abort ==
    /\ op = "getFinalTypeByFieldID:loop"
    /\ pair.fatal
    /\ op' = "getFinalTypeByFieldID:fatal"
    /\ UNCHANGED <<dest, src, flags, fieldID, index, result, pair, iters>>

NextField ==
    \/ GetMaxFieldID
    \/ \E i \in IndicesOf(dest) : GetFieldID(i)
    \/ \E fid \in FieldIDsOf(dest) : GetSubTypeByFieldID(fid)
    \/ \E fid \in FieldIDsOf(dest), i \in IndicesOf(dest) \cup {0} :
           RootChildFieldID(fid, i)
    \/ \E fid \in FieldIDsOf(dest) : GetFinalTypeByFieldID(fid)
    \/ GetFinalTypeByFieldID_iterate
    \/ GetFinalTypeByFieldID_return
    \/ GetFinalTypeByFieldID_abort

SpecField == InitField /\ [][NextField]_vars

-----------------------------------------------------------------------------
(* Properties of field-ID addressing, checked under SpecField.             *)

(* Bundle, Enum or Vector, possibly named by an alias.                     *)
IsBaseAggregate(t) == type_isa({"Bundle", "FEnum", "FVector"}, t)

(* The type of element i of an aggregate.                                  *)
ElementTypeOf(t, i) ==
    LET a == type_cast_any(t) IN
    IF a.kind \in BundleLikeKinds THEN getElementType(a, i) ELSE a.elementType

(* The field IDs of the subtree of element i.                              *)
ElementRange(t, i) ==
    getFieldID(t, i)..(getFieldID(t, i) + getMaxFieldID(ElementTypeOf(t, i)))

InRangeID == fieldID <= getMaxFieldID(dest)

(* C4: taking the field ID of element i of a Bundle, Enum or Vector and    *)
(* resolving that ID one level gives back element i's type with rebased    *)
(* ID 0.                                                                   *)
C4_FieldIDRoundTrip ==
    (op = "getFieldID" /\ IsBaseAggregate(dest))
        => getSubTypeByFieldID(dest, result)
               = SubType(ElementTypeOf(dest, index), 0)

(* The field ID of a second element that follows an aggregate element.     *)
C4_Witness ==
    /\ op = "getFieldID"
    /\ dest.kind = "Bundle"
    /\ index = 1
    /\ result > 2
    /\ getSubTypeByFieldID(dest, result) = SubType(UIntType(1, FALSE), 0)

(* C5 as stated: ID 0 yields (T, 0) for every type T, and an ID of         *)
(* 1..maxFieldID of a Bundle, Enum or Vector yields the element whose      *)
(* range holds it with the ID rebased into that element.                   *)
C5_Original ==
    (op = "getSubTypeByFieldID" /\ InRangeID) =>
        /\ fieldID = 0 => result = SubType(dest, 0)
        /\ (fieldID >= 1 /\ IsBaseAggregate(dest)) =>
             \E i \in IndicesOf(dest) :
                /\ fieldID \in ElementRange(dest, i)
                /\ result = SubType(ElementTypeOf(dest, i),
                                    fieldID - getFieldID(dest, i))
                /\ result.id <= getMaxFieldID(result.type)

(* C5, amended: ID 0 yields (T, 0) for every type T that is not an alias   *)
(* and (U, 0) for an alias of U; an ID of 1..maxFieldID of a Bundle, Enum  *)
(* or Vector yields the one element whose range holds it, with the ID      *)
(* rebased into that element and within the element's maxFieldID.          *)
C5_SubTypeByFieldID ==
    (op = "getSubTypeByFieldID" /\ InRangeID) =>
        /\ (fieldID = 0 /\ dest.kind # "Alias") => result = SubType(dest, 0)
        /\ (fieldID = 0 /\ dest.kind = "Alias")
               => result = SubType(dest.innerType, 0)
        /\ (fieldID >= 1 /\ IsBaseAggregate(dest)) =>
             /\ \E i \in IndicesOf(dest) :
                  /\ fieldID \in ElementRange(dest, i)
                  /\ result = SubType(ElementTypeOf(dest, i),
                                      fieldID - getFieldID(dest, i))
             /\ \A i, j \in IndicesOf(dest) :
                  (fieldID \in ElementRange(dest, i)
                     /\ fieldID \in ElementRange(dest, j)) => i = j
             /\ result.id <= getMaxFieldID(result.type)

(* ID 0 of an alias of a two-element bundle comes back as the bundle.      *)
C5_Witness ==
    /\ op = "getSubTypeByFieldID"
    /\ dest.kind = "Alias"
    /\ fieldID = 0
    /\ result.type = dest.innerType
    /\ result.type.kind = "Bundle"
    /\ Len(result.type.elements) = 2

(* C6: field IDs are a preorder numbering.  A ground type has maxFieldID   *)
(* 0.  In a Bundle or Enum the first element has ID 1, each next element   *)
(* has the previous element's ID plus that element's maxFieldID plus 1,    *)
(* and maxFieldID is the last element's ID plus its maxFieldID (0 without  *)
(* elements).  In a Vector of n elements of type E element i has ID        *)
(* 1 + i * (maxFieldID(E) + 1) and maxFieldID is n * (maxFieldID(E) + 1).  *)
(* So element IDs increase strictly and the element ranges are disjoint    *)
(* and cover 1..maxFieldID.  Vector<UInt<1>, 3> has maxFieldID 3.          *)
C6_PreorderNumbering ==
    LET a == type_cast_any(dest)
        n == getNumElements(a)
        stride == getMaxFieldID(a.elementType) + 1
    IN
    /\ (op = "getMaxFieldID" /\ type_isa(GroundKinds, dest)) => result = 0
    /\ (op = "getMaxFieldID" /\ type_isa({"Bundle", "FEnum"}, dest)) =>
         /\ result = IF n = 0 THEN 0
                     ELSE getFieldID(dest, n - 1)
                            + getMaxFieldID(ElementTypeOf(dest, n - 1))
         /\ \A id \in 1..result :
              \E i \in IndicesOf(dest) : id \in ElementRange(dest, i)
         /\ \A i, j \in IndicesOf(dest) :
              i < j => \A id \in ElementRange(dest, i) :
                         id < getFieldID(dest, j)
    /\ (op = "getMaxFieldID" /\ type_isa({"FVector"}, dest)) =>
         /\ result = n * stride
         /\ \A id \in 1..result :
              \E i \in IndicesOf(dest) : id \in ElementRange(dest, i)
         /\ \A i, j \in IndicesOf(dest) :
              i < j => \A id \in ElementRange(dest, i) :
                         id < getFieldID(dest, j)
    /\ (op = "getMaxFieldID"
          /\ dest = FVectorType(UIntType(1, FALSE), 3, FALSE)) => result = 3
    /\ (op = "getFieldID" /\ type_isa({"Bundle", "FEnum"}, dest)) =>
         result = IF index = 0 THEN 1
                  ELSE getFieldID(dest, index - 1)
                         + getMaxFieldID(ElementTypeOf(dest, index - 1)) + 1
    /\ (op = "getFieldID" /\ type_isa({"FVector"}, dest)) =>
         result = 1 + index * stride

(* maxFieldID 3 of Vector<UInt<1>, 3>.                                     *)
C6_Witness ==
    /\ op = "getMaxFieldID"
    /\ dest = FVectorType(UIntType(1, FALSE), 3, FALSE)
    /\ result = 3

(* Nesting depth of a type: the number of aggregate levels above its       *)
(* deepest leaf.                                                           *)
RECURSIVE Depth(_)
Depth(t) ==
    LET a == type_cast_any(t)
        Max(S) == IF S = {} THEN 0 ELSE CHOOSE x \in S : \A y \in S : y <= x
    IN CASE a.kind \in BundleLikeKinds ->
              1 + Max({Depth(a.elements[i].type) : i \in 1..Len(a.elements)})
         [] a.kind \in VectorLikeKinds -> 1 + Depth(a.elementType)
         [] OTHER -> 0

(* C7 as stated: for every type with field IDs and every ID of             *)
(* 0..maxFieldID, getFinalTypeByFieldID never hands a non-zero ID to a     *)
(* ground or reference type and returns after at most depth(T) iterations. *)
C7_Original ==
    InRangeID =>
        /\ op # "getFinalTypeByFieldID:fatal"
        /\ op \in {"getFinalTypeByFieldID:loop", "getFinalTypeByFieldID"}
               => iters <= Depth(dest)

RECURSIVE containsOpenVector(_)
containsOpenVector(t) ==
    LET a == type_cast_any(t)
    IN CASE a.kind = "OpenVector" -> TRUE
         [] a.kind \in BundleLikeKinds ->
              \E i \in 1..Len(a.elements) :
                  containsOpenVector(a.elements[i].type)
         [] a.kind = "FVector" -> containsOpenVector(a.elementType)
         [] OTHER -> FALSE

(* C7 for the types without an OpenVector: the loop ends within depth(T)   *)
(* iterations and never fails.                                             *)
C7_WithoutOpenVector ==
    (InRangeID /\ ~containsOpenVector(dest)) =>
        /\ op # "getFinalTypeByFieldID:fatal"
        /\ op \in {"getFinalTypeByFieldID:loop", "getFinalTypeByFieldID"}
               => iters <= Depth(dest)

(* C8 as stated: a Bundle or Vector without elements has maxFieldID 0 and  *)
(* its getSubTypeByFieldID fails on every non-zero ID.                     *)
C8_Original ==
    LET a == type_cast_any(dest) IN
    (a.kind \in {"Bundle", "FVector"} /\ getNumElements(a) = 0) =>
        /\ op = "getMaxFieldID" => result = 0
        /\ (op = "getSubTypeByFieldID" /\ fieldID # 0) => result.fatal

(* C9: for a Bundle, Enum or Vector, a valid index and an ID of            *)
(* 0..maxFieldID, rootChildFieldID reports in-range exactly when the ID    *)
(* lies in the element's range, which is exactly when getSubTypeByFieldID  *)
(* descends into that element, and then returns the ID rebased as          *)
(* getSubTypeByFieldID rebases it.  A ground type gives (0, id = 0).       *)
C9_RootChildFieldID ==
    (op = "rootChildFieldID" /\ InRangeID) =>
        /\ IsBaseAggregate(dest) =>
             /\ result.inRange <=> fieldID \in ElementRange(dest, index)
             /\ result.inRange <=>
                  /\ fieldID # 0
                  /\ getSubTypeByFieldID(dest, fieldID)
                       = SubType(ElementTypeOf(dest, index),
                                 fieldID - getFieldID(dest, index))
             /\ result.inRange =>
                  /\ result.id = fieldID - getFieldID(dest, index)
                  /\ result.id = getSubTypeByFieldID(dest, fieldID).id
        /\ type_isa(GroundKinds, dest) => result = ChildRange(0, fieldID = 0)

(* An ID in the subtree of a first element that is followed by a second.   *)
C9_Witness ==
    /\ op = "rootChildFieldID"
    /\ dest.kind = "Bundle"
    /\ Len(dest.elements) = 2
    /\ index = 0
    /\ fieldID = 2
    /\ result = ChildRange(1, TRUE)

-----------------------------------------------------------------------------
(* The type transformers as a state machine.  dest is the base type x;     *)
(* each step applies one transformer to the type at hand (x at first, the  *)
(* latest output afterwards): src holds its input, result its output, op   *)
(* its name and flags the name of the step before.  A transformer that     *)
(* returns no type ends the behaviour.                                     *)

MaxTransformNodes == 3
MaxApplications == 2

TransformLeaves == {U1, CU1, SIntType(MaxWidth, FALSE), ClockType(FALSE)}

TransformTypes(n) ==
    {t \in TypesUpTo(n, TransformLeaves, BOOLEAN) : FIRRTLBaseType_classof(t)}

InitTransform ==
    /\ dest \in TransformTypes(MaxTransformNodes)
    /\ src = NullType
    /\ flags = NoFlags
    /\ fieldID = 0
    /\ index = 0
    /\ op = "none"
    /\ result = NullType
    /\ pair = NoPair
    /\ iters = 0

(* The type the next transformer is called on.                             *)
TypeAtHand == IF iters = 0 THEN dest ELSE result

(* One call: name is the transformer, output the type it returns.          *)
ApplyTransformer(name, output) ==
    /\ iters < MaxApplications
    /\ ~IsInvalid(TypeAtHand)
    /\ op' = name
    /\ flags' = [previous |-> op]
    /\ src' = TypeAtHand
    /\ result' = output
    /\ iters' = iters + 1
    /\ UNCHANGED <<dest, fieldID, index, pair>>

GetPassiveType == ApplyTransformer("getPassiveType", getPassiveType(TypeAtHand))

GetAnonymousType ==
    ApplyTransformer("getAnonymousType", getAnonymousType(TypeAtHand))

GetConstType(isConstArg) ==
    ApplyTransformer(IF isConstArg THEN "getConstType(true)"
                     ELSE "getConstType(false)",
                     getConstType(TypeAtHand, isConstArg))

GetAllConstDroppedType ==
    ApplyTransformer("getAllConstDroppedType",
                     getAllConstDroppedType(TypeAtHand))

GetMaskType == ApplyTransformer("getMaskType", getMaskType(TypeAtHand))

GetWidthlessType ==
    ApplyTransformer("getWidthlessType", getWidthlessType(TypeAtHand))

NextTransform ==
    \/ GetPassiveType
    \/ GetAnonymousType
    \/ \E c \in BOOLEAN : GetConstType(c)
    \/ GetAllConstDroppedType
    \/ GetMaskType
    \/ GetWidthlessType

SpecTransform == InitTransform /\ [][NextTransform]_vars

TransformerNames ==
    {"getPassiveType", "getAnonymousType", "getConstType(true)",
     "getConstType(false)", "getAllConstDroppedType", "getMaskType",
     "getWidthlessType"}

(* C18: for each transformer f and every base type x (ground, bundle,      *)
(* vector, enum, alias-wrapped), f returns a type and f(f(x)) is the       *)
(* identical type as f(x).                                                 *)
C18_Original ==
    op \in TransformerNames =>
        /\ ~IsInvalid(result)
        /\ (iters = 2 /\ flags.previous = op) => result = src

RECURSIVE containsEnum(_)
(* t holds an enum, at any depth and behind aliases.                       *)
containsEnum(t) ==
    CASE t.kind = "FEnum" -> TRUE
      [] t.kind = "Bundle" ->
           \E i \in 1..Len(t.elements) : containsEnum(t.elements[i].type)
      [] t.kind = "FVector" -> containsEnum(t.elementType)
      [] t.kind = "Alias" -> containsEnum(t.innerType)
      [] OTHER -> FALSE

(* On types without an enum every transformer returns a type and is        *)
(* idempotent.                                                             *)
C18_WithoutEnum ==
    (op \in TransformerNames /\ ~containsEnum(dest)) =>
        /\ ~IsInvalid(result)
        /\ (iters = 2 /\ flags.previous = op) => result = src

(* Whenever a transformer has returned a type twice in a row, the second   *)
(* output is the first.                                                    *)
C18_IdempotentWhereDefined ==
    (op \in TransformerNames /\ iters = 2 /\ flags.previous = op
       /\ ~IsInvalid(result)) => result = src

-----------------------------------------------------------------------------
(* The passive form.                                                       *)

RECURSIVE AllFlipsCleared(_)
(* t with the flip of every bundle element cleared, at every depth, and    *)
(* nothing else changed: names, order, lengths, widths, const flags and    *)
(* alias wrappers stay.                                                    *)
AllFlipsCleared(t) ==
    CASE t.kind = "Bundle" ->
           BundleType([i \in 1..Len(t.elements) |->
                         BundleElement(t.elements[i].name, FALSE,
                             AllFlipsCleared(t.elements[i].type))],
                      t.isConst)
      [] t.kind = "FVector" ->
           FVectorType(AllFlipsCleared(t.elementType), t.numElements,
                       t.isConst)
      [] t.kind = "FEnum" ->
           FEnumType([i \in 1..Len(t.elements) |->
                        EnumElement(t.elements[i].name,
                            AllFlipsCleared(t.elements[i].type))],
                     t.isConst)
      [] t.kind = "Alias" ->
           wrapTypeAlias(t.name, AllFlipsCleared(t.innerType))
      [] OTHER -> t

RECURSIVE WithoutAliases(_)
(* t with every alias wrapper replaced by the type it wraps.               *)
WithoutAliases(t) ==
    CASE t.kind = "Bundle" ->
           BundleType([i \in 1..Len(t.elements) |->
                         BundleElement(t.elements[i].name,
                             t.elements[i].isFlip,
                             WithoutAliases(t.elements[i].type))],
                      t.isConst)
      [] t.kind = "FVector" ->
           FVectorType(WithoutAliases(t.elementType), t.numElements,
                       t.isConst)
      [] t.kind = "FEnum" ->
           FEnumType([i \in 1..Len(t.elements) |->
                        EnumElement(t.elements[i].name,
                            WithoutAliases(t.elements[i].type))],
                     t.isConst)
      [] t.kind = "Alias" -> WithoutAliases(t.innerType)
      [] OTHER -> t

(* getPassiveType or getAnonymousType has just been called on a ground     *)
(* type and returned something else.                                       *)
GroundTypeChanged ==
    /\ op \in {"getPassiveType", "getAnonymousType"}
    /\ type_cast_any(src).kind \in GroundKinds
    /\ result # src

-----------------------------------------------------------------------------
(* The anonymous form.                                                     *)

(* C20 as stated: for every base type t, getAnonymousType(t) is a type     *)
(* with containsTypeAlias = false, and it is t with every alias wrapper    *)
(* (at the root, around a ground leaf, around a nested bundle, vector or   *)
(* enum) replaced by the type it wraps, const flags, flips, names, widths  *)
(* and lengths preserved.                                                  *)
C20_Original ==
    op = "getAnonymousType" =>
        /\ ~IsInvalid(result)
        /\ ~containsTypeAlias(result)
        /\ result = WithoutAliases(src)

RECURSIVE HasAliasedGround(_)
(* Some alias of t wraps a ground type.                                    *)
HasAliasedGround(t) ==
    CASE t.kind = "Bundle" ->
           \E i \in 1..Len(t.elements) : HasAliasedGround(t.elements[i].type)
      [] t.kind = "FVector" -> HasAliasedGround(t.elementType)
      [] t.kind = "FEnum" ->
           \E i \in 1..Len(t.elements) : HasAliasedGround(t.elements[i].type)
      [] t.kind = "Alias" ->
           t.innerType.kind \in GroundKinds \/ HasAliasedGround(t.innerType)
      [] OTHER -> FALSE

RECURSIVE HasConstEnumWithAlias(_)
(* Some const enum of t holds an alias.                                    *)
HasConstEnumWithAlias(t) ==
    CASE t.kind = "Bundle" ->
           \E i \in 1..Len(t.elements) :
              HasConstEnumWithAlias(t.elements[i].type)
      [] t.kind = "FVector" -> HasConstEnumWithAlias(t.elementType)
      [] t.kind = "FEnum" ->
           \/ t.isConst /\ containsTypeAlias(t)
           \/ \E i \in 1..Len(t.elements) :
                 HasConstEnumWithAlias(t.elements[i].type)
      [] t.kind = "Alias" -> HasConstEnumWithAlias(t.innerType)
      [] OTHER -> FALSE

(* Where no alias wraps a ground type and no const enum holds an alias,    *)
(* getAnonymousType returns the alias-free form.                           *)
C20_AliasedAggregates ==
    (op = "getAnonymousType" /\ ~HasAliasedGround(src)
       /\ ~HasConstEnumWithAlias(src)) =>
        /\ ~IsInvalid(result)
        /\ ~containsTypeAlias(result)
        /\ result = WithoutAliases(src)

-----------------------------------------------------------------------------
(* The const-dropped form.                                                 *)

RECURSIVE AllConstCleared(_)
(* t with the const flag of the root, of every nested aggregate and of     *)
(* every leaf cleared, and nothing else changed.                           *)
AllConstCleared(t) ==
    CASE t.kind = "Bundle" ->
           BundleType([i \in 1..Len(t.elements) |->
                         BundleElement(t.elements[i].name,
                             t.elements[i].isFlip,
                             AllConstCleared(t.elements[i].type))],
                      FALSE)
      [] t.kind = "FVector" ->
           FVectorType(AllConstCleared(t.elementType), t.numElements, FALSE)
      [] t.kind = "FEnum" ->
           FEnumType([i \in 1..Len(t.elements) |->
                        EnumElement(t.elements[i].name,
                            AllConstCleared(t.elements[i].type))],
                     FALSE)
      [] t.kind = "Alias" ->
           wrapTypeAlias(t.name, AllConstCleared(t.innerType))
      [] t.kind \in GroundKinds -> [t EXCEPT !.isConst = FALSE]
      [] OTHER -> t

(* C21 as stated: for every base type t, getAllConstDroppedType(t) has     *)
(* containsConst = false, is otherwise structurally equal to t (alias      *)
(* wrappers aside), and is the identical handle t whenever containsConst   *)
(* of t is already false.                                                  *)
C21_Original ==
    op = "getAllConstDroppedType" =>
        /\ ~IsInvalid(result)
        /\ ~containsConst(result)
        /\ WithoutAliases(result) = AllConstCleared(WithoutAliases(src))
        /\ ~containsConst(src) => result = src

(* The const-dropped form has no const flag and, alias wrappers aside, is  *)
(* the input with its const flags cleared.                                 *)
C21_DroppedModuloAliases ==
    op = "getAllConstDroppedType" =>
        /\ ~IsInvalid(result)
        /\ ~containsConst(result)
        /\ WithoutAliases(result) = AllConstCleared(WithoutAliases(src))

(* On an input whose root is not an alias the const-free input is returned *)
(* as it is.                                                               *)
C21_IdentityBelowAliases ==
    (op = "getAllConstDroppedType" /\ src.kind # "Alias"
       /\ ~containsConst(src)) => result = src

-----------------------------------------------------------------------------
(* The mask form.                                                          *)

RECURSIVE MaskForm(_)
(* t with every ground leaf replaced by a 1-bit UInt of the leaf's const   *)
(* flag and the shape of every aggregate kept.                             *)
MaskForm(t) ==
    CASE t.kind = "Bundle" ->
           BundleType([i \in 1..Len(t.elements) |->
                         BundleElement(t.elements[i].name,
                             t.elements[i].isFlip,
                             MaskForm(t.elements[i].type))],
                      t.isConst)
      [] t.kind = "FVector" ->
           FVectorType(MaskForm(t.elementType), t.numElements, t.isConst)
      [] t.kind = "FEnum" ->
           FEnumType([i \in 1..Len(t.elements) |->
                        EnumElement(t.elements[i].name,
                            MaskForm(t.elements[i].type))],
                     t.isConst)
      [] t.kind = "Alias" -> MaskForm(t.innerType)
      [] t.kind \in GroundKinds -> UIntType(1, t.isConst)
      [] OTHER -> t

(* C22 as stated: getMaskType returns a type for every base type (ground,  *)
(* bundle, vector and enum); the type is the input with every ground leaf  *)
(* replaced by a 1-bit UInt of the leaf's const flag and with the shape of *)
(* every aggregate kept (element count, names, order, flips, lengths and   *)
(* aggregate const flags).                                                 *)
C22_Original ==
    op = "getMaskType" =>
        /\ ~IsInvalid(result)
        /\ result = MaskForm(src)

(* On a passive input without an enum getMaskType returns the mask form.   *)
C22_MaskOfPassiveWithoutEnum ==
    (op = "getMaskType" /\ ~containsEnum(src) /\ isPassive(src)) =>
        result = MaskForm(src)

(* On an input without an enum getMaskType returns the passive form of the *)
(* mask form: the flips are cleared.                                       *)
C22_MaskClearsFlips ==
    (op = "getMaskType" /\ ~containsEnum(src)) =>
        result = AllFlipsCleared(MaskForm(src))

(* getMaskType returns no type exactly on the inputs that hold an enum.    *)
C22_NoMaskOfEnum ==
    op = "getMaskType" => (IsInvalid(result) <=> containsEnum(src))

-----------------------------------------------------------------------------
(* Construction.  A behaviour builds one type bottom-up through the `get`  *)
(* factories: first a leaf, then wrappers around the type built last.      *)
(* dest is the type built last (no type when verification failed), src    *)
(* the element, base or inner type handed to the factory, flags the other  *)
(* parameters, result the recursive properties the new storage computed,   *)
(* op the factory and iters the number of calls.  The C++ parameter types  *)
(* decide what can be handed to a factory: Bundle, Vector, Enum and Ref    *)
(* take a FIRRTLBaseType, the open aggregates any FIRRTLType.              *)

MaxGets == 3

LeafWidths == {-2, -1, MaxWidth}

(* A second element of a two-element bundle or enum; NullType stands for   *)
(* a one-element aggregate.                                                *)
SecondTypes == {NullType, CU1, ResetType(FALSE)}

NoParams == [isConst |-> FALSE, isFlip |-> FALSE, width |-> 0, second |-> NullType]

InitGet ==
    /\ dest = NullType
    /\ src = NullType
    /\ flags = NoParams
    /\ fieldID = 0
    /\ index = 0
    /\ op = "none"
    /\ result = NullType
    /\ pair = NoPair
    /\ iters = 0

(* One call of a factory: t is the type of the requested parameters and ok *)
(* the answer of the kind's verify hook.                                   *)
GetType(name, elt, params, t, ok) ==
    /\ iters < MaxGets
    /\ op' = name
    /\ src' = elt
    /\ flags' = params
    /\ dest' = IF ok THEN t ELSE InvalidType
    /\ result' = IF ok THEN getRecursiveTypeProperties(t) ELSE NullType
    /\ iters' = iters + 1
    /\ UNCHANGED <<fieldID, index, pair>>

(* The elements a bundle or enum factory is called with.                   *)
ElementsOf(first, f, second) ==
    IF IsNull(second) THEN <<BundleElement("a", f, first)>>
    ELSE <<BundleElement("a", f, first), BundleElement("b", FALSE, second)>>

VariantsOf(first, second) ==
    IF IsNull(second) THEN <<EnumElement("a", first)>>
    ELSE <<EnumElement("a", first), EnumElement("b", second)>>

(* ClockType::get, ResetType::get, AsyncResetType::get                     *)
GetWidthless(k, c) ==
    /\ IsNull(dest)
    /\ GetType(k, NullType, [NoParams EXCEPT !.isConst = c],
               [kind |-> k, isConst |-> c], TRUE)

(* SIntType::get, UIntType::get, AnalogType::get                           *)
GetWidth(k, w, c) ==
    /\ IsNull(dest)
    /\ GetType(k, NullType, [NoParams EXCEPT !.isConst = c, !.width = w],
               [kind |-> k, width |-> w, isConst |-> c], Width_verify(w))

(* StringType::get                                                         *)
GetString ==
    /\ IsNull(dest)
    /\ GetType("String", NullType, NoParams, StringType, TRUE)

(* BundleType::get                                                         *)
GetBundle(f, c, second) ==
    /\ FIRRTLBaseType_classof(dest) /\ ~IsInvalid(dest)
    /\ GetType("Bundle", dest,
               [NoParams EXCEPT !.isConst = c, !.isFlip = f, !.second = second],
               BundleType(ElementsOf(dest, f, second), c), TRUE)

(* OpenBundleType::get                                                     *)
GetOpenBundle(f, c, second) ==
    /\ ~IsNull(dest) /\ ~IsInvalid(dest)
    /\ GetType("OpenBundle", dest,
               [NoParams EXCEPT !.isConst = c, !.isFlip = f, !.second = second],
               OpenBundleType(ElementsOf(dest, f, second), c),
               OpenBundleType_verify(ElementsOf(dest, f, second), c))

(* FVectorType::get                                                        *)
GetFVector(n, c) ==
    /\ FIRRTLBaseType_classof(dest) /\ ~IsInvalid(dest)
    /\ GetType("FVector", dest, [NoParams EXCEPT !.isConst = c],
               FVectorType(dest, n, c), TRUE)

(* OpenVectorType::get                                                     *)
GetOpenVector(n, c) ==
    /\ ~IsNull(dest) /\ ~IsInvalid(dest)
    /\ GetType("OpenVector", dest, [NoParams EXCEPT !.isConst = c],
               OpenVectorType(dest, n, c), OpenVectorType_verify(dest, c))

(* FEnumType::get                                                          *)
GetFEnum(c, second) ==
    /\ FIRRTLBaseType_classof(dest) /\ ~IsInvalid(dest)
    /\ GetType("FEnum", dest,
               [NoParams EXCEPT !.isConst = c, !.second = second],
               FEnumType(VariantsOf(dest, second), c),
               FEnum_verify(VariantsOf(dest, second), c))

(* RefType::get whose storage does not clear isPassive.                    *)
GetRef_Mutant(forceable) ==
    /\ FIRRTLBaseType_classof(dest) /\ ~IsInvalid(dest)
    /\ iters < MaxGets
    /\ op' = "Ref"
    /\ src' = dest
    /\ flags' = [NoParams EXCEPT !.isFlip = forceable]
    /\ dest' = IF RefType_verify(dest, forceable)
               THEN RefType(dest, forceable) ELSE InvalidType
    /\ result' = IF RefType_verify(dest, forceable)
                 THEN [getRecursiveTypeProperties(dest) EXCEPT
                         !.containsReference = TRUE]
                 ELSE NullType
    /\ iters' = iters + 1
    /\ UNCHANGED <<fieldID, index, pair>>

(* RefType::get; the flag is the forceable parameter.                      *)
GetRef(forceable) ==
    /\ FIRRTLBaseType_classof(dest) /\ ~IsInvalid(dest)
    /\ GetType("Ref", dest, [NoParams EXCEPT !.isFlip = forceable],
               RefType(dest, forceable), RefType_verify(dest, forceable))

(* BaseTypeAliasType::get                                                  *)
GetAlias ==
    /\ FIRRTLBaseType_classof(dest) /\ ~IsInvalid(dest)
    /\ dest.kind # "Alias"
    /\ GetType("Alias", dest, NoParams, wrapTypeAlias("T", dest), TRUE)

NextGet ==
    \/ \E k \in {"Clock", "Reset", "AsyncReset"}, c \in BOOLEAN :
          GetWidthless(k, c)
    \/ \E k \in WidthKinds, w \in LeafWidths, c \in BOOLEAN : GetWidth(k, w, c)
    \/ GetString
    \/ \E f, c \in BOOLEAN, second \in SecondTypes : GetBundle(f, c, second)
    \/ \E f, c \in BOOLEAN, second \in SecondTypes : GetOpenBundle(f, c, second)
    \/ \E n \in 0..MaxVecLen, c \in BOOLEAN : GetFVector(n, c)
    \/ \E n \in 0..MaxVecLen, c \in BOOLEAN : GetOpenVector(n, c)
    \/ \E c \in BOOLEAN, second \in SecondTypes : GetFEnum(c, second)
    \/ \E forceable \in BOOLEAN : GetRef(forceable)
    \/ GetAlias

SpecGet == InitGet /\ [][NextGet]_vars

-----------------------------------------------------------------------------
(* Recursive properties of aggregates.                                     *)

AggregateKinds == {"Bundle", "OpenBundle", "FVector", "OpenVector", "FEnum"}

OrBits ==
    {"containsAnalog", "containsReference", "containsConst",
     "containsTypeAlias", "hasUninferredWidth", "hasUninferredReset"}

(* The children of an aggregate with their flips: the elements of a bundle *)
(* or enum, the element type of a vector.                                  *)
ChildrenOf(t) ==
    CASE t.kind \in {"Bundle", "OpenBundle"} ->
           [i \in 1..Len(t.elements) |->
              [type |-> t.elements[i].type, isFlip |-> t.elements[i].isFlip]]
      [] t.kind = "FEnum" ->
           [i \in 1..Len(t.elements) |->
              [type |-> t.elements[i].type, isFlip |-> FALSE]]
      [] OTHER -> <<[type |-> t.elementType, isFlip |-> FALSE]>>

(* The properties of aggregate t as the reductions over its children.      *)
ReducedBit(t, b) ==
    LET cs == ChildrenOf(t) IN
    \/ \E i \in 1..Len(cs) : getRecursiveTypeProperties(cs[i].type)[b]
    \/ b = "containsConst" /\ t.isConst

ReducedPassive(t) ==
    LET cs == ChildrenOf(t) IN
    \A i \in 1..Len(cs) :
        getRecursiveTypeProperties(cs[i].type).isPassive /\ ~cs[i].isFlip

(* An aggregate has just been built.                                       *)
AggregateBuilt == op \in AggregateKinds /\ ~IsInvalid(dest)

(* C23 as stated: for every Bundle, OpenBundle, Vector, OpenVector and     *)
(* Enum T, isPassive(T) is the conjunction over the elements of (passive   *)
(* and not flipped), and each other property bit of T is the disjunction   *)
(* of that bit over the elements, with T's const flag ORed into            *)
(* containsConst.                                                          *)
C23_Original ==
    AggregateBuilt =>
        /\ result.isPassive = ReducedPassive(dest)
        /\ \A b \in OrBits : result[b] = ReducedBit(dest, b)

(* The reductions hold for bundles, vectors and the open aggregates.       *)
C23_BundlesAndVectors ==
    (AggregateBuilt /\ op # "FEnum") =>
        /\ result.isPassive = ReducedPassive(dest)
        /\ \A b \in OrBits : result[b] = ReducedBit(dest, b)

(* An enum reduces every bit but hasUninferredReset, which it leaves       *)
(* false.                                                                  *)
C23_EnumBits ==
    (AggregateBuilt /\ op = "FEnum") =>
        /\ result.isPassive = ReducedPassive(dest)
        /\ \A b \in OrBits \ {"hasUninferredReset"} :
              result[b] = ReducedBit(dest, b)
        /\ ~result.hasUninferredReset

-----------------------------------------------------------------------------
(* Recursive properties of wrappers and grounds.                           *)

(* C24: an alias of T has the property bits of T except containsTypeAlias, *)
(* which is true; a reference to T has the bits of T except isPassive,     *)
(* which is false, and containsReference, which is true; a ground type is  *)
(* passive, contains analog only if it is an Analog, has an uninferred     *)
(* width iff it is an SInt, UInt or Analog of unknown width, has an        *)
(* uninferred reset only if it is a Reset, and contains const iff its own  *)
(* const flag is set.                                                      *)
C24_WrappersAndGrounds ==
    /\ (op = "Alias" /\ ~IsInvalid(dest)) =>
          result = [getRecursiveTypeProperties(src) EXCEPT
                      !.containsTypeAlias = TRUE]
    /\ (op = "Ref" /\ ~IsInvalid(dest)) =>
          result = [getRecursiveTypeProperties(src) EXCEPT
                      !.isPassive = FALSE, !.containsReference = TRUE]
    /\ (op \in GroundKinds /\ ~IsInvalid(dest)) =>
          result = [isPassive |-> TRUE,
                    containsReference |-> FALSE,
                    containsAnalog |-> (op = "Analog"),
                    containsConst |-> flags.isConst,
                    containsTypeAlias |-> FALSE,
                    hasUninferredWidth |->
                        (op \in WidthKinds /\ flags.width = -1),
                    hasUninferredReset |-> (op = "Reset")]

(* A reference to an alias of a const leaf has been built: it is not       *)
(* passive while its base is, and it carries the alias and const bits of   *)
(* the base.                                                               *)
C24_Witness ==
    /\ op = "Ref"
    /\ ~IsInvalid(dest)
    /\ src.kind = "Alias"
    /\ src.innerType.kind \in GroundKinds
    /\ isPassive(src)
    /\ ~result.isPassive
    /\ result.containsReference
    /\ result.containsTypeAlias
    /\ result.containsConst

-----------------------------------------------------------------------------
(* Rejection of malformed types at construction.                           *)

(* The elements the last bundle or enum factory was called with.           *)
RequestedTypes ==
    IF IsNull(flags.second) THEN <<src>> ELSE <<src, flags.second>>

(* The parameters of the last call are one of the malformed cases.         *)
Malformed ==
    \/ /\ op \in WidthKinds
       /\ flags.width < -1
    \/ /\ op = "FEnum"
       /\ \E i \in 1..Len(RequestedTypes) :
            \/ ~isPassive(RequestedTypes[i])
            \/ containsAnalog(RequestedTypes[i])
            \/ containsConst(RequestedTypes[i]) /\ ~flags.isConst
    \/ /\ op = "Ref"
       /\ (~isPassive(src) \/ (flags.isFlip /\ containsConst(src)))
    \/ /\ op = "OpenBundle"
       /\ \E i \in 1..Len(RequestedTypes) :
            \/ flags.isConst /\ containsReference(RequestedTypes[i])
            \/ type_isa(PropertyKinds, RequestedTypes[i])
    \/ /\ op = "OpenVector"
       /\ \/ flags.isConst /\ containsReference(src)
          \/ type_isa(PropertyKinds, src)

(* C25: a factory returns no type exactly when its parameters are          *)
(* malformed: an SInt/UInt/Analog width below -1; an enum element that is  *)
(* non-passive, contains analog, or contains const in a non-const enum; a  *)
(* reference with a non-passive base or forceable over a base containing   *)
(* const; a const open aggregate with an element containing a reference;   *)
(* an open aggregate element without field-ID support.  Every other        *)
(* parameter tuple yields a type.                                          *)
C25_MalformedRejected ==
    op # "none" => (IsInvalid(dest) <=> Malformed)

(* A non-const enum over an element that contains const, and is passive    *)
(* and free of analog, has been requested and no type was returned.        *)
C25_Witness ==
    /\ op = "FEnum"
    /\ ~flags.isConst
    /\ containsConst(src)
    /\ isPassive(src)
    /\ ~containsAnalog(src)
    /\ IsInvalid(dest)

-----------------------------------------------------------------------------
(* Open aggregates against their base counterparts.                        *)

(* dest is an open vector of a base element type or an open bundle of      *)
(* base element types.                                                     *)
HasBaseCounterpart ==
    \/ /\ dest.kind = "OpenVector"
       /\ FIRRTLBaseType_classof(dest.elementType)
    \/ /\ dest.kind = "OpenBundle"
       /\ \A i \in 1..Len(dest.elements) :
             FIRRTLBaseType_classof(dest.elements[i].type)

(* The vector or bundle with the parameters of the open aggregate dest.    *)
BaseCounterpart ==
    IF dest.kind = "OpenVector"
    THEN FVectorType(dest.elementType, dest.numElements, dest.isConst)
    ELSE BundleType(dest.elements, dest.isConst)

(* The answer of the counterpart to the call dest has just answered.  The  *)
(* sub-type at field ID 0 is the aggregate itself.                         *)
CounterpartResult ==
    CASE op = "getMaxFieldID" -> getMaxFieldID(BaseCounterpart)
      [] op = "getFieldID" -> getFieldID(BaseCounterpart, index)
      [] op = "getSubTypeByFieldID" ->
           IF fieldID = 0 THEN SubType(dest, 0)
           ELSE getSubTypeByFieldID(BaseCounterpart, fieldID)
      [] op = "rootChildFieldID" ->
           rootChildFieldID(BaseCounterpart, fieldID, index)

FieldOps ==
    {"getMaxFieldID", "getFieldID", "getSubTypeByFieldID", "rootChildFieldID"}

(* C26 as stated: for every base element type e, length n and id in        *)
(* [0, maxFieldID], getMaxFieldID, getFieldID, getSubTypeByFieldID and     *)
(* rootChildFieldID of OpenVector<e, n> equal those of Vector<e, n>, and   *)
(* likewise for an OpenBundle and the Bundle of the same elements.         *)
C26_Original ==
    (HasBaseCounterpart /\ op \in FieldOps
       /\ fieldID <= getMaxFieldID(dest)) => result = CounterpartResult

(* The open bundle agrees with the bundle on all four operations.          *)
C26_OpenBundleAsBundle ==
    (HasBaseCounterpart /\ dest.kind = "OpenBundle" /\ op \in FieldOps
       /\ fieldID <= getMaxFieldID(dest)) => result = CounterpartResult

(* The open vector agrees with the vector on every operation but           *)
(* getSubTypeByFieldID, where it returns the element type with the         *)
(* element's index in place of the rebased ID.                             *)
C26_OpenVectorAsCoded ==
    (HasBaseCounterpart /\ dest.kind = "OpenVector" /\ op \in FieldOps
       /\ fieldID <= getMaxFieldID(dest)) =>
        IF op = "getSubTypeByFieldID" /\ fieldID # 0
        THEN /\ result.type = CounterpartResult.type
             /\ result.id = (fieldID - 1) \div (getMaxFieldID(dest.elementType) + 1)
        ELSE result = CounterpartResult

-----------------------------------------------------------------------------
(* Const context through bundles in weak equivalence.                      *)

(* Weak equivalence has just been decided for two bundles.                 *)
WeakOnBundles ==
    /\ op = "areTypesWeaklyEquivalent"
    /\ dest.kind = "Bundle"
    /\ src.kind = "Bundle"

(* C27 as stated: for bundles D and S and any flip arguments,              *)
(* areTypesWeaklyEquivalent(const D, S, df, sf, false, so) equals          *)
(* areTypesWeaklyEquivalent(non-const D, S, df, sf, true, so), and         *)
(* symmetrically for a const S versus srcOuterTypeIsConst = true.          *)
C27_Original ==
    /\ (WeakOnBundles /\ dest.isConst /\ ~flags.destOuterTypeIsConst) =>
          result = areTypesWeaklyEquivalent([dest EXCEPT !.isConst = FALSE],
                       src, flags.destFlip, flags.srcFlip, TRUE,
                       flags.srcOuterTypeIsConst)
    /\ (WeakOnBundles /\ src.isConst /\ ~flags.srcOuterTypeIsConst) =>
          result = areTypesWeaklyEquivalent(dest,
                       [src EXCEPT !.isConst = FALSE], flags.destFlip,
                       flags.srcFlip, flags.destOuterTypeIsConst, TRUE)

(* What the bundle case does instead: the const flag of the bundle itself  *)
(* plays no part, the elements are checked under the outer flags alone.    *)
C27_BundleConstIgnored ==
    WeakOnBundles =>
        result = areTypesWeaklyEquivalent([dest EXCEPT !.isConst = FALSE],
                     [src EXCEPT !.isConst = FALSE], flags.destFlip,
                     flags.srcFlip, flags.destOuterTypeIsConst,
                     flags.srcOuterTypeIsConst)

-----------------------------------------------------------------------------
(* Weak equivalence against strict equivalence.                            *)

(* Weak equivalence has just been decided for two base types with its      *)
(* default flags.                                                          *)
WeakByDefault ==
    /\ op = "areTypesWeaklyEquivalent"
    /\ flags = [destFlip |-> FALSE, srcFlip |-> FALSE,
                destOuterTypeIsConst |-> FALSE, srcOuterTypeIsConst |-> FALSE]
    /\ FIRRTLBaseType_classof(dest)
    /\ FIRRTLBaseType_classof(src)

(* Strict equivalence of the pair with its default flags.                  *)
StrictByDefault == areTypesEquivalent(dest, src, FALSE, FALSE, FALSE)

(* C28 as stated: for all base types d and s, if areTypesEquivalent(d, s)  *)
(* is true then areTypesWeaklyEquivalent(d, s) is true, both with default  *)
(* flags.                                                                  *)
C28_Original ==
    (WeakByDefault /\ StrictByDefault = "true") => result = "true"

(* Without flipped elements and const enums strict equivalence implies     *)
(* weak equivalence.                                                       *)
C28_LooserWithoutFlips ==
    (/\ WeakByDefault
     /\ StrictByDefault = "true"
     /\ ~HasFlip(dest) /\ ~HasFlip(src)
     /\ ~HasConstEnum(dest) /\ ~HasConstEnum(src)) => result = "true"

(* Where both decide and strict equivalence holds, weak equivalence fails  *)
(* only on pairs with a flipped element.                                   *)
C28_FailsOnlyOnFlips ==
    (WeakByDefault /\ StrictByDefault = "true" /\ result = "false") =>
        (HasFlip(dest) /\ HasFlip(src))

-----------------------------------------------------------------------------
(* Transformers in a build without assertions.  Base::get checks the       *)
(* verify hook in an assert only: with assertions compiled out a `get`     *)
(* whose parameters fail verification returns the type it was asked for.   *)
(* SpecTransform is the build with assertions (the call aborts);           *)
(* SpecTransformNDEBUG adds the outcome of the build without them.         *)

(* FEnumType::getConstType when get does not assert.                       *)
getConstType_NDEBUG(t, c) == [type_cast_any(t) EXCEPT !.isConst = c]

RECURSIVE getAnonymousType_NDEBUG(_)
(* getAnonymousType when get does not assert.                              *)
getAnonymousType_NDEBUG(t) ==
    LET a == type_cast_any(t) IN
    CASE a.kind \in GroundKinds -> t
      [] a.kind = "Bundle" ->
           IF ~containsTypeAlias(a) THEN a
           ELSE BundleType([i \in 1..Len(a.elements) |->
                              BundleElement(a.elements[i].name,
                                  a.elements[i].isFlip,
                                  getAnonymousType_NDEBUG(a.elements[i].type))],
                           a.isConst)
      [] a.kind = "FVector" ->
           IF ~containsTypeAlias(a) THEN a
           ELSE FVectorType(getAnonymousType_NDEBUG(a.elementType),
                            a.numElements, a.isConst)
      [] a.kind = "FEnum" ->
           IF ~containsTypeAlias(a) THEN a
           ELSE FEnumType([i \in 1..Len(a.elements) |->
                             EnumElement(a.elements[i].name,
                                 getAnonymousType_NDEBUG(a.elements[i].type))],
                          FALSE)

GetConstType_NDEBUG(isConstArg) ==
    /\ ~IsInvalid(TypeAtHand)
    /\ IsInvalid(getConstType(TypeAtHand, isConstArg))
    /\ ApplyTransformer(IF isConstArg THEN "getConstType(true)"
                        ELSE "getConstType(false)",
                        getConstType_NDEBUG(TypeAtHand, isConstArg))

GetAnonymousType_NDEBUG ==
    /\ ~IsInvalid(TypeAtHand)
    /\ IsInvalid(getAnonymousType(TypeAtHand))
    /\ ApplyTransformer("getAnonymousType",
                        getAnonymousType_NDEBUG(TypeAtHand))

NextTransformNDEBUG ==
    \/ GetPassiveType
    \/ GetAnonymousType
    \/ \E c \in BOOLEAN : GetConstType(c)
    \/ GetAllConstDroppedType
    \/ GetMaskType
    \/ GetWidthlessType
    \/ \E c \in BOOLEAN : GetConstType_NDEBUG(c)
    \/ GetAnonymousType_NDEBUG

SpecTransformNDEBUG == InitTransform /\ [][NextTransformNDEBUG]_vars

RECURSIVE WellFormed(_)
(* t and every type nested in t satisfy the verify hook of their kind.     *)
WellFormed(t) ==
    /\ verify(t)
    /\ CASE t.kind \in {"Bundle", "FEnum"} ->
              \A i \in 1..Len(t.elements) : WellFormed(t.elements[i].type)
         [] t.kind = "FVector" -> WellFormed(t.elementType)
         [] t.kind = "Alias" -> WellFormed(t.innerType)
         [] OTHER -> TRUE

WellFormednessPreservers ==
    {"getConstType(true)", "getConstType(false)", "getAllConstDroppedType",
     "getPassiveType", "getAnonymousType", "getWidthlessType"}

(* C29 as stated: starting from types that pass verification, every type   *)
(* returned by getConstType, getAllConstDroppedType, getPassiveType,       *)
(* getAnonymousType and getWidthlessType, applied in any sequence, again   *)
(* satisfies the verify hook of its kind: no non-const enum has an element *)
(* that contains const, and every enum element is passive and non-analog.  *)
C29_Original ==
    (op \in WellFormednessPreservers /\ ~IsInvalid(result)) =>
        WellFormed(result)

(* The inputs are well-formed.                                             *)
C29_InputsWellFormed == WellFormed(dest)

(* On inputs without an enum the returned types are well-formed.           *)
C29_WithoutEnum ==
    (op \in WellFormednessPreservers /\ ~IsInvalid(result)
       /\ ~containsEnum(dest)) => WellFormed(result)

-----------------------------------------------------------------------------
(* The lazy caches under concurrent callers.  Several threads call         *)
(* getPassiveType, or getAnonymousType, on one storage instance.  The      *)
(* cache is a plain field of the storage, read and written without any     *)
(* synchronisation, so a read that overlaps a store of another thread is a *)
(* data race: it may see the field as it was, the handle being stored, or  *)
(* a handle that is neither.  Whether a handle store can be overlapped     *)
(* depends on the build; Init chooses.                                     *)
(*   dest    the instance the method is called on                          *)
(*   op      the method                                                    *)
(*   result  impl->passiveType or impl->anonymousType, the cache field     *)
(*   flags   the position of each thread in the method                     *)
(*   pair    the local variable of each thread (the handle to store)       *)
(*   src     the handle each call returned                                 *)
(*   index   1 if handle stores are indivisible in this build, else 0      *)
(* The handles of the element types are taken from the uncached            *)
(* computation: their caches are other instances.                          *)

NumThreads == 2
MaxCacheNodes == 2

Threads == 1..NumThreads

(* A handle that is neither empty nor any type of the context.             *)
TornHandle == [kind |-> "Torn"]

(* The value the method computes and stores.                               *)
Uncached(method, t) ==
    IF method = "getPassiveType" THEN getPassiveType(t)
    ELSE getAnonymousType(t)

(* The instances with a cache for the method: bundles and vectors cache    *)
(* both forms, enums the anonymous form only.                              *)
CacheTypes(method) ==
    {t \in TransformTypes(MaxCacheNodes) :
       /\ t.kind \in (IF method = "getPassiveType" THEN {"Bundle", "FVector"}
                      ELSE {"Bundle", "FVector", "FEnum"})
       /\ ~IsInvalid(Uncached(method, t))}

InitCache ==
    /\ op \in {"getPassiveType", "getAnonymousType"}
    /\ dest \in CacheTypes(op)
    /\ result = NullType
    /\ flags = [t \in Threads |-> "call"]
    /\ pair = [t \in Threads |-> NullType]
    /\ src = [t \in Threads |-> NullType]
    /\ index \in {0, 1}
    /\ fieldID = 0
    /\ iters = 0

(* The values a read of the cache field by thread t can yield.             *)
ReadCache(t) ==
    IF \E u \in Threads \ {t} : flags[u] = "storing"
    THEN {result, TornHandle}
           \cup {pair[u] : u \in {v \in Threads \ {t} : flags[v] = "storing"}}
    ELSE {result}

(* `if (impl->passiveType)`: the first read of the cache field.            *)
CheckCache(t) ==
    /\ flags[t] = "call"
    /\ \E r \in ReadCache(t) :
          flags' = [flags EXCEPT ![t] = IF IsNull(r) THEN "compute"
                                        ELSE "return cached"]
    /\ UNCHANGED <<dest, src, fieldID, index, op, result, pair, iters>>

(* `return impl->passiveType;`: the second read of the cache field.        *)
ReturnCached(t) ==
    /\ flags[t] = "return cached"
    /\ \E r \in ReadCache(t) : src' = [src EXCEPT ![t] = r]
    /\ flags' = [flags EXCEPT ![t] = "done"]
    /\ UNCHANGED <<dest, fieldID, index, op, result, pair, iters>>

(* The already-passive (already-anonymous) test and the rebuild: the       *)
(* handle to store is *this or the rebuilt type.                           *)
Compute(t) ==
    /\ flags[t] = "compute"
    /\ pair' = [pair EXCEPT ![t] = Uncached(op, dest)]
    /\ flags' = [flags EXCEPT ![t] = "store"]
    /\ UNCHANGED <<dest, src, fieldID, index, op, result, iters>>

(* `impl->passiveType = passiveType;` in a build with indivisible handle   *)
(* stores, and the return of the local handle.                             *)
StoreAtOnce(t) ==
    /\ flags[t] = "store"
    /\ index = 1
    /\ result' = pair[t]
    /\ src' = [src EXCEPT ![t] = pair[t]]
    /\ flags' = [flags EXCEPT ![t] = "done"]
    /\ UNCHANGED <<dest, fieldID, index, op, pair, iters>>

(* The store begins; other threads can now overlap it.                     *)
StoreBegin(t) ==
    /\ flags[t] = "store"
    /\ index = 0
    /\ flags' = [flags EXCEPT ![t] = "storing"]
    /\ UNCHANGED <<dest, src, fieldID, index, op, result, pair, iters>>

(* The store ends and the local handle is returned.  Two overlapping       *)
(* stores race as well.                                                    *)
StoreEnd(t) ==
    /\ flags[t] = "storing"
    /\ result' \in (IF \E u \in Threads \ {t} : flags[u] = "storing"
                    THEN {pair[t], TornHandle} ELSE {pair[t]})
    /\ src' = [src EXCEPT ![t] = pair[t]]
    /\ flags' = [flags EXCEPT ![t] = "done"]
    /\ UNCHANGED <<dest, fieldID, index, op, pair, iters>>

NextCache ==
    \E t \in Threads :
       \/ CheckCache(t)
       \/ ReturnCached(t)
       \/ Compute(t)
       \/ StoreAtOnce(t)
       \/ StoreBegin(t)
       \/ StoreEnd(t)

SpecCache == InitCache /\ [][NextCache]_vars

C30_WrittenOnceIfIndivisible ==
    [][(index = 1 /\ result' # result) =>
          (IsNull(result) /\ result' = Uncached(op, dest))]_vars

(* In a build whose handle stores are indivisible the claim holds: no      *)
(* read overlaps a store.                                                  *)
C30_IndivisibleStores ==
    index = 1 =>
        /\ result \in {NullType, Uncached(op, dest)}
        /\ \A t \in Threads :
              flags[t] = "done" => src[t] = Uncached(op, dest)

=============================================================================
